---- MODULE Spec2Model ----
(***************************************************************************)
(* AutoApply: the human verification session (app/core/verification.py),   *)
(* the form filler (app/core/form_filler.py), the field mapper             *)
(* (app/services/huggingface_integration.py) and the apply-to-job flow     *)
(* (app/main.py), as state machines.                                       *)
(*                                                                         *)
(* Conventions.  An Optional[str] that is None is the string None below;   *)
(* any other optional value is a sequence of length 0 (absent) or 1.  A    *)
(* confidence or a classifier score is an integer number of hundredths     *)
(* (0.8 is 80); times are whole seconds.  A FormField object is an element  *)
(* of the sequence fields, and a list of FormField references (filled_fields) is a         *)
(* sequence of indices into fields, so that "field.value = v" through one  *)
(* reference is seen through every other.                                  *)
(***************************************************************************)
EXTENDS Integers, Sequences, FiniteSets, TLC

VARIABLES
    \* ---- FormField objects and the page ----
    fields,                 \* the FormField objects, in detection order
    filled_fields,          \* list of references (indices into fields)
    page,                   \* the form on the page: selector -> value last written
    pageWrites,             \* every write made to the page, in order
    \* ---- FormVerification.verify_form_data ----
    vpc,                    \* position of the verify_form_data coroutine
    verification_start,     \* FormVerification._verification_start: <<>> or <<t>>
    now,                    \* datetime.utcnow(), seconds
    confidence_threshold,   \* argument of verify_form_data
    confidence_threshold_met,
    approved,
    modifications,          \* local of verify_form_data
    hm_modifications,       \* local of _handle_modifications
    hm_index,               \* position of the for loop of _handle_modifications
    result,                 \* <<the VerificationResult returned>>, or <<>>
    verr,                   \* the message of the VerificationError raised, or <<>>
    inputs,                 \* the lines read from the operator so far
    rounds,                 \* the override prompts of each modify round, in order
    presented,              \* the rows shown by _display_verification_interface
    pollOutcome,            \* outcome of the last handle_verification_timeout
    pollElapsed,            \* elapsed seconds computed by that poll
    \* ---- FormFiller.fill_form and the field mapper ----
    fpc,                    \* position of the fill_form coroutine
    fidx,                   \* position of the for loop of fill_form
    pageOpen,               \* FormFiller.page is not None
    resume_path,            \* argument of fill_form
    profile_data,           \* FormFiller.profile_data
    mapLog,                 \* the calls of _map_field_value, in order
    classifyLog,            \* the requests sent to the classifier, in order
    ferr,                   \* the message of the FormFillingError raised, or <<>>
    \* ---- ApplicationManager.apply_to_job ----
    apc,                    \* position of the apply_to_job coroutine
    profileStored,          \* data_dir / "user_profile.json" exists
    LinkedInProfileBound,   \* the name LinkedInProfile resolves in app.main
    submitLog,              \* the calls of submit_form, in order
    aerr,                   \* the message of the error apply_to_job reports, or <<>>
    \* ---- PDFParser and the text functions of app/core/pdf_parser.py ----
    text,                   \* the text handed to the function: lines, or characters
    ppc,                    \* position of the call
    sections,               \* the dictionary segment_sections returned
    hf_service,             \* the classifier _extract_basic_info turns to
    basic_info,             \* the dictionary _extract_basic_info returned
    cleaned,                \* the results of clean_text, applied once and again
    experience_data,        \* PDFParser.experience_data: <<>> while unset, or <<list>>
    parser_profile_data,    \* PDFParser.profile_data
    perr,                   \* the message of the error the call raised, or <<>>
    parsed_profile,         \* <<the LinkedInProfile returned>>, or <<>>
    stored_profile,         \* <<the profile written to user_profile.json>>, or <<>>
    parses,                 \* calls of parse_profile made on this parser
    \* ---- LinkedInProfile.to_json and from_json ----
    linkedin_profile,       \* <<the LinkedInProfile in memory>>, or <<>>
    profile_json,           \* <<the document in the JSON file>>, or <<>> for no file
    reloaded_profile,       \* <<the LinkedInProfile from_json returned>>, or <<>>
    jpc,                    \* position of the round trip
    \* ---- UtilityHelpers.chunk_text ----
    chunk_size,             \* argument of chunk_text
    overlap,                \* argument of chunk_text
    start,                  \* local of chunk_text
    chunks,                 \* local of chunk_text: the chunks appended so far
    cpc,                    \* position of the call of chunk_text
    \* ---- StorageManager and the files of the data directory ----
    key_file,               \* content of .encryption_key, or <<>> for no file
    managers,               \* per StorageManager: position of __init__ and its key
    profile_file,           \* <<the dictionary in user_profile.json>>, or <<>>
    loaded_data,            \* <<the dictionary load_profile_data returned>>, or <<>>
    records_file,           \* <<the list in application_records.json>>, or <<>>
    fetched_records,        \* <<the list get_application_records returned>>, or <<>>
    serr,                   \* the message of the StorageError of the last call, or <<>>
    storage_calls           \* the calls made on the storage managers, in order

vars == <<fields, filled_fields, page, pageWrites, vpc, verification_start, now,
          confidence_threshold, confidence_threshold_met, approved, modifications,
          hm_modifications, hm_index, result, verr, inputs, rounds, presented,
          pollOutcome, pollElapsed, fpc, fidx, pageOpen, resume_path,
          profile_data, mapLog, classifyLog, ferr, apc, profileStored,
          LinkedInProfileBound, submitLog, aerr, text, ppc, sections,
          hf_service, basic_info, cleaned, experience_data,
          parser_profile_data, perr, parsed_profile, stored_profile,
          parses, linkedin_profile, profile_json, reloaded_profile, jpc,
          chunk_size, overlap, start, chunks, cpc, key_file, managers,
          profile_file, loaded_data, records_file, fetched_records, serr,
          storage_calls>>

fieldVars  == <<fields, filled_fields, page, pageWrites>>
verifyVars == <<vpc, verification_start, confidence_threshold,
                confidence_threshold_met, approved, modifications,
                hm_modifications, hm_index, result, verr, inputs, rounds,
                presented>>
pollVars   == <<pollOutcome, pollElapsed>>
fillVars   == <<fpc, fidx, pageOpen, resume_path, profile_data, mapLog,
                classifyLog, ferr>>
applyVars  == <<apc, profileStored, LinkedInProfileBound, submitLog, aerr>>
parseVars  == <<text, ppc, sections, hf_service, basic_info, cleaned,
                experience_data, parser_profile_data, perr, parsed_profile,
                stored_profile, parses>>
jsonVars   == <<linkedin_profile, profile_json, reloaded_profile, jpc>>
chunkVars  == <<chunk_size, overlap, start, chunks, cpc>>
storageVars == <<key_file, managers, profile_file, loaded_data, records_file,
                 fetched_records, serr, storage_calls>>
storeVars  == <<jsonVars, chunkVars, storageVars>>

-----------------------------------------------------------------------------
(* Bounds of the model *)

MaxFields == 2      \* longest list of form fields
MaxInputs == 5      \* most lines read from the operator in one session
MaxTicks  == 4      \* most clock advances
TickSeconds == 100  \* seconds added by one clock advance
MaxApplyFields == 2 \* longest list of form fields on the page of an apply run
MaxApplyInputs == 3 \* most lines read from the operator in an apply run
MaxLines == 4       \* most lines of a text handed to segment_sections
MaxParts == 3       \* most pieces of a text handed to parse_experience_section
MaxInfoLines == 3   \* most lines of a text handed to _extract_basic_info
MaxProfileLines == 3 \* most lines of the text of a document
MaxParses == 2      \* most documents handed to one parser
MaxChars == 5       \* most characters of a text handed to clean_text
MaxEntries == 2     \* most experience entries, and education entries, of a profile
MaxChunkText == 4   \* most characters of a text handed to chunk_text
MaxChunkSize == 3   \* largest chunk_size handed to chunk_text
MaxChunks == 3      \* most chunks of the list the model keeps
MaxManagers == 2    \* most storage managers over one data directory
MaxRecords == 2     \* most records of application_records.json

-----------------------------------------------------------------------------
(* Values *)

None == "<None>"

Thresholds    == {80}

\* what the operator may type at the choice prompt, beyond "1", "2", "3"
UnrecognizedChoices == {"", "x"}
ChoiceInputs   == {"1", "2", "3"} \cup UnrecognizedChoices
\* what the operator may type at an override prompt
OverrideInputs == {"", "A", "B"}


\* settings.verification_timeout
verification_timeout == 300

\* the lines the operator may still be asked for
InputBound == IF apc = "none" THEN MaxInputs ELSE MaxApplyInputs

EmptyMap == [s \in {} |-> ""]

\* d[k] = v of a Python dict
DictSet(d, k, v) == [s \in DOMAIN d \cup {k} |-> IF s = k THEN v ELSE d[s]]

\* one write to the page: page.fill, select_option, check or set_input_files
PageWrite(op, sel, val) == [op |-> op, selector |-> sel, value |-> val]

\* Python truthiness of an Optional[str]
Truthy(v) == v # None /\ v # ""

\* "v or ''"
OrEmpty(v) == IF Truthy(v) THEN v ELSE ""

-----------------------------------------------------------------------------
(* FormField *)

FormField(sel, ty, lab, val, conf) ==
    [selector |-> sel, field_type |-> ty, label |-> lab, value |-> val,
     confidence |-> conf]

\* the FormField objects a caller may hand to verify_form_data: filled and
\* unfilled ones, at, above and below the threshold, file fields among them,
\* two of them under one selector as detect_form_fields names fields by id or
\* by name and neither is unique on a page
VerifyFields ==
    { FormField("#a", "text", "Email", "A", 80),
      FormField("#a", "file", "Resume", None, 0),
      FormField("#b", "text", " Country ", None, 50),
      FormField("#b", "file", "Resume", "A", 100),
      FormField("#b", "text", "Email", "A", 90) }

\* the lists handed to verify_form_data when the clock is watched
TimedFields ==
    { FormField("#a", "text", "Email", "A", 80),
      FormField("#b", "file", "Resume", None, 0) }

\* the FormField objects detect_form_fields may build: value None, confidence
\* 0.0, one of each type that fill_form and _fill_field tell apart
DetectedFields ==
    { FormField("#a", "text", " Country ", None, 0),
      FormField("#b", "email", "Email", None, 0),
      FormField("#a", "tel", "Phone", None, 0),
      FormField("#b", "select", " Country ", None, 0),
      FormField("#a", "radio", " Country ", None, 0),
      FormField("#b", "textarea", "Email", None, 0),
      FormField("#a", "file", "Resume", None, 0),
      FormField("#b", "date", "Email", None, 0) }

\* the fields of the page the apply command is pointed at
ApplyFields ==
    { FormField("#a", "email", "Email", None, 0),
      FormField("#b", "select", " Country ", None, 0),
      FormField("#a", "file", "Resume", None, 0) }

SeqsUpTo(S, n) == UNION { [1..k -> S] : k \in 0..n }

Refs(n) == [i \in 1..n |-> i]

\* the FormField a reference of filled_fields denotes
Field(k) == fields[filled_fields[k]]

-----------------------------------------------------------------------------
(* FormVerification.verify_form_data *)

\* variant: "field.confidence > confidence_threshold"
ThresholdMetStrict(threshold) ==
    \A k \in 1..Len(filled_fields) :
        Field(k).field_type # "file" => Field(k).confidence > threshold

\* all(field.confidence >= confidence_threshold for field in filled_fields
\*     if field.field_type != "file")
ThresholdMet(threshold) ==
    \A k \in 1..Len(filled_fields) :
        Field(k).field_type # "file" => Field(k).confidence >= threshold

\* the rows _display_verification_interface prints
DisplayRows == [k \in 1..Len(filled_fields) |-> Field(k)]

\* except Exception as e: raise VerificationError(f"Verification failed: {str(e)}")
Wrapped(msg) == <<"Verification failed: ", msg>>

\* lines 73-85: start of the session up to the first prompt
VerifyStart ==
    /\ vpc = "idle"
    /\ verification_start' = <<now>>
    /\ presented' = DisplayRows
    /\ confidence_threshold_met' = ThresholdMet(confidence_threshold)
    /\ modifications' = EmptyMap
    /\ approved' = FALSE
    /\ vpc' = "choice"
    /\ UNCHANGED <<fieldVars, now, confidence_threshold, hm_modifications,
                   hm_index, result, verr, inputs, rounds, pollVars, storeVars, parseVars, fillVars, applyVars>>

\* variant: file fields are offered an override prompt too
NextPromptAny(k) == k

\* the index of the first non-file field after position k, or Len + 1
RECURSIVE NextPrompt(_)
NextPrompt(k) ==
    IF k > Len(filled_fields) THEN k
    ELSE IF Field(k).field_type = "file" THEN NextPrompt(k + 1)
    ELSE k

\* _handle_modifications leaves its loop: the round's map replaces modifications
AfterPrompt(k, mods) ==
    IF NextPrompt(k) > Len(filled_fields)
    THEN /\ modifications' = mods
         /\ hm_modifications' = EmptyMap
         /\ hm_index' = 0
         /\ vpc' = "choice"
    ELSE /\ hm_modifications' = mods
         /\ hm_index' = NextPrompt(k)
         /\ vpc' = "modify"
         /\ UNCHANGED modifications

\* choice == "1": the loop ends and the result is built and returned
ChooseApprove ==
    /\ vpc = "choice"
    /\ Len(inputs) < InputBound
    /\ inputs' = Append(inputs, "1")
    /\ approved' = TRUE
    /\ result' = <<[approved |-> TRUE,
                  modifications |-> modifications,
                  verification_duration |-> now - verification_start[1],
                  confidence_threshold_met |-> confidence_threshold_met]>>
    /\ vpc' = "returned"
    /\ UNCHANGED <<fieldVars, now, verification_start, confidence_threshold,
                   confidence_threshold_met, modifications, hm_modifications,
                   hm_index, verr, rounds, presented, pollVars, storeVars, parseVars, fillVars, applyVars>>

\* choice == "2": _handle_modifications starts with an empty map
ChooseModify ==
    /\ vpc = "choice"
    /\ Len(inputs) < InputBound
    /\ inputs' = Append(inputs, "2")
    /\ rounds' = Append(rounds, <<>>)
    /\ AfterPrompt(1, EmptyMap)
    /\ UNCHANGED <<fieldVars, now, verification_start, confidence_threshold,
                   confidence_threshold_met, approved, result, verr,
                   presented, pollVars, storeVars, parseVars, fillVars, applyVars>>

\* variant: cancel leaves the loop and returns an unapproved result
ChooseCancelReturns ==
    /\ vpc = "choice"
    /\ Len(inputs) < InputBound
    /\ inputs' = Append(inputs, "3")
    /\ result' = <<[approved |-> FALSE,
                    modifications |-> modifications,
                    verification_duration |-> now - verification_start[1],
                    confidence_threshold_met |-> confidence_threshold_met]>>
    /\ vpc' = "returned"
    /\ UNCHANGED <<fieldVars, now, verification_start, confidence_threshold,
                   confidence_threshold_met, approved, modifications,
                   hm_modifications, hm_index, verr, rounds, presented,
                   pollVars, storeVars, parseVars, fillVars, applyVars>>

\* choice == "3": VerificationError, caught and re-raised by the handler
ChooseCancel ==
    /\ vpc = "choice"
    /\ Len(inputs) < InputBound
    /\ inputs' = Append(inputs, "3")
    /\ verr' = Wrapped("Submission cancelled by user")
    /\ vpc' = "raised"
    /\ UNCHANGED <<fieldVars, now, verification_start, confidence_threshold,
                   confidence_threshold_met, approved, modifications,
                   hm_modifications, hm_index, result, rounds, presented,
                   pollVars, storeVars, parseVars, fillVars, applyVars>>

\* variant: an unrecognized line is taken as "2"
ChooseInvalidModifies ==
    /\ vpc = "choice"
    /\ Len(inputs) < InputBound
    /\ \E c \in UnrecognizedChoices : inputs' = Append(inputs, c)
    /\ rounds' = Append(rounds, <<>>)
    /\ AfterPrompt(1, EmptyMap)
    /\ UNCHANGED <<fieldVars, now, verification_start, confidence_threshold,
                   confidence_threshold_met, approved, result, verr,
                   presented, pollVars, storeVars, parseVars, fillVars, applyVars>>

\* any other line: "Invalid choice. Please try again."
ChooseInvalid ==
    /\ vpc = "choice"
    /\ Len(inputs) < InputBound
    /\ \E c \in UnrecognizedChoices : inputs' = Append(inputs, c)
    /\ UNCHANGED <<fieldVars, now, vpc, verification_start, confidence_threshold,
                   confidence_threshold_met, approved, modifications,
                   hm_modifications, hm_index, result, verr, rounds, presented,
                   pollVars, storeVars, parseVars, fillVars, applyVars>>

\* variant: "if new_value != current_value", a blank line overrides
OverrideAppliesBlank(new_value, current_value) ==
    new_value # current_value

\* if new_value and new_value != current_value
OverrideApplies(new_value, current_value) ==
    Truthy(new_value) /\ new_value # current_value

\* one iteration of the loop of _handle_modifications, for a non-file field
ModifyField ==
    /\ vpc = "modify"
    /\ Len(inputs) < InputBound
    /\ \E new_value \in OverrideInputs :
         LET f == filled_fields[hm_index]
             current_value == OrEmpty(fields[f].value)
             sel == fields[f].selector
         IN /\ inputs' = Append(inputs, new_value)
            /\ rounds' = [rounds EXCEPT ![Len(rounds)] =
                              Append(@, [ref |-> f, current |-> current_value,
                                         input |-> new_value])]
            /\ IF OverrideApplies(new_value, current_value)
               THEN \/ \* await page.fill(field.selector, new_value) succeeds
                                              /\ page' = DictSet(page, sel, new_value)
                       /\ pageWrites' = Append(pageWrites, PageWrite("fill", sel, new_value))
                       /\ fields' = [fields EXCEPT ![f].value = new_value]
                       /\ AfterPrompt(hm_index + 1,
                                      DictSet(hm_modifications, sel, new_value))
                       /\ UNCHANGED verr
                    \/ \* page.fill raises
                       /\ verr' = Wrapped("page.fill failed")
                       /\ vpc' = "raised"
                       /\ UNCHANGED <<fields, page, pageWrites, modifications,
                                      hm_modifications, hm_index>>
               ELSE /\ AfterPrompt(hm_index + 1, hm_modifications)
                    /\ UNCHANGED <<fields, page, pageWrites, verr>>
    /\ UNCHANGED <<filled_fields, now, verification_start, confidence_threshold,
                   confidence_threshold_met, approved, result, presented,
                   pollVars, storeVars, parseVars, fillVars, applyVars>>

\* variant: a failing read ends the session with an unapproved result
InputFailsReturns ==
    /\ vpc \in {"choice", "modify"}
    /\ result' = <<[approved |-> FALSE,
                    modifications |-> modifications,
                    verification_duration |-> now - verification_start[1],
                    confidence_threshold_met |-> confidence_threshold_met]>>
    /\ vpc' = "returned"
    /\ UNCHANGED <<fieldVars, now, verification_start, confidence_threshold,
                   confidence_threshold_met, approved, modifications,
                   hm_modifications, hm_index, verr, inputs, rounds,
                   presented, pollVars, storeVars, parseVars, fillVars, applyVars>>

\* input() raises (end of input) at either kind of prompt
InputFails ==
    /\ vpc \in {"choice", "modify"}
    /\ verr' = Wrapped("EOF when reading a line")
    /\ vpc' = "raised"
    /\ UNCHANGED <<fieldVars, now, verification_start, confidence_threshold,
                   confidence_threshold_met, approved, modifications,
                   hm_modifications, hm_index, result, inputs, rounds,
                   presented, pollVars, storeVars, parseVars, fillVars, applyVars>>

-----------------------------------------------------------------------------
(* The clock and FormVerification.handle_verification_timeout *)

Tick ==
    /\ now + TickSeconds <= MaxTicks * TickSeconds
    /\ now' = now + TickSeconds
    /\ UNCHANGED <<fieldVars, verifyVars, pollVars, storeVars, parseVars, fillVars, applyVars>>

\* variant: "elapsed > settings.verification_timeout"
TimedOutStrict(elapsed) == elapsed > verification_timeout

\* elapsed >= settings.verification_timeout
TimedOut(elapsed) == elapsed >= verification_timeout

handle_verification_timeout ==
    /\ IF verification_start # <<>>
       THEN /\ pollElapsed' = <<now - verification_start[1]>>
            /\ pollOutcome' = IF TimedOut(now - verification_start[1])
                              THEN "raised" ELSE "nothing"
       ELSE /\ pollElapsed' = <<>>
            /\ pollOutcome' = "nothing"
    /\ UNCHANGED <<fieldVars, verifyVars, now, fillVars, applyVars, parseVars,
                   storeVars>>

-----------------------------------------------------------------------------
(* HuggingFaceService: the field mapper *)

\* confidence scores the classifier may report
Scores == {0, 90}

\* the option lists _get_field_options may read from a select or radio field
OptionLists == { <<>>, <<"Brazil", "Chile">> }

\* field_label.lower().strip(), on the labels of the model
NormalizedLabel(field_label) ==
    CASE field_label = "Email"     -> "email"
      [] field_label = " Country " -> "country"
      [] field_label = "Phone"     -> "phone"
      [] field_label = "Resume"    -> "resume"
      [] OTHER                     -> field_label

\* _generate_mapping_hypothesis
generate_mapping_hypothesis(field_label, field_type) ==
    CASE field_type = "email" -> "This field requires an email address"
      [] field_type = "tel"   -> "This field requires a phone number"
      [] field_type = "date"  -> "This field requires a date"
      [] OTHER -> "This field requires " \o NormalizedLabel(field_label)

\* an entry of the profile dictionary: a string, None, or a list of strings
StrEntry(k, v)  == [key |-> k, kind |-> "str",  str |-> v,  list |-> <<>>]
NoneEntry(k)    == [key |-> k, kind |-> "none", str |-> "", list |-> <<>>]
ListEntry(k, l) == [key |-> k, kind |-> "list", str |-> "", list |-> l]

\* the profile dictionaries of the model: the empty one FormFiller starts
\* with, one without a phone, one without an email
Profiles ==
    { <<>>,
      << StrEntry("full_name", "John Doe"), StrEntry("email", "j@x.io"),
         NoneEntry("phone"), ListEntry("skills", <<"Python", "">>) >>,
      << StrEntry("full_name", "John Doe"), NoneEntry("email"),
         StrEntry("phone", "+1234"), StrEntry("headline", "") >> }

\* profile_data.get(key), when it is a string; "" when absent, None or a list
RECURSIVE ProfileGet(_, _)
ProfileGet(profile, key) ==
    IF profile = <<>> THEN ""
    ELSE IF Head(profile).key = key THEN Head(profile).str
    ELSE ProfileGet(Tail(profile), key)

\* [str(v) for v in value if v]
RECURSIVE TruthyItems(_)
TruthyItems(l) ==
    IF l = <<>> THEN <<>>
    ELSE (IF Head(l) # "" THEN <<Head(l)>> ELSE <<>>) \o TruthyItems(Tail(l))

\* the generic pool: every string value and every truthy item of every list
RECURSIVE FlattenProfile(_)
FlattenProfile(profile) ==
    IF profile = <<>> THEN <<>>
    ELSE LET e == Head(profile)
         IN (CASE e.kind = "str"  -> <<e.str>>
               [] e.kind = "list" -> TruthyItems(e.list)
               [] OTHER           -> <<>>)
            \o FlattenProfile(Tail(profile))

\* _extract_candidate_values
extract_candidate_values(field_type, profile) ==
    CASE field_type = "email" ->
            IF ProfileGet(profile, "email") # ""
            THEN <<ProfileGet(profile, "email")>> ELSE <<>>
      [] field_type = "tel" ->
            IF ProfileGet(profile, "phone") # ""
            THEN <<ProfileGet(profile, "phone")>> ELSE <<>>
      [] OTHER -> FlattenProfile(profile)

\* _classify_candidates: the request handed to the pipeline
ClassifyRequest(hypothesis, candidates) ==
    [sequences |-> candidates, candidate_labels |-> <<hypothesis>>]

\* variant: a request is sent a second time
MapFieldRequestsRetry(field_label, field_type, profile, candidate_values) ==
    LET hypothesis == generate_mapping_hypothesis(field_label, field_type)
        pool == extract_candidate_values(field_type, profile)
    IN IF candidate_values # <<>>
       THEN <<ClassifyRequest(hypothesis, candidate_values),
              ClassifyRequest(hypothesis, candidate_values)>>
       ELSE IF pool # <<>>
       THEN <<ClassifyRequest(hypothesis, pool), ClassifyRequest(hypothesis, pool)>>
       ELSE <<>>

\* the request map_field issues for a field, <<>> when it issues none
MapFieldRequests(field_label, field_type, profile, candidate_values) ==
    LET hypothesis == generate_mapping_hypothesis(field_label, field_type)
        pool == extract_candidate_values(field_type, profile)
    IN IF candidate_values # <<>>
       THEN <<ClassifyRequest(hypothesis, candidate_values)>>
       ELSE IF pool # <<>> THEN <<ClassifyRequest(hypothesis, pool)>>
       ELSE <<>>

\* the classifier raised (model not loaded, network, malformed request)
FailedResponse == [ok |-> FALSE, labels |-> <<>>, scores |-> <<>>]

\* the orders in which a list of labels can be ranked
Rankings(labels) ==
    { p \in [1..Len(labels) -> {labels[i] : i \in 1..Len(labels)}] :
        \A i \in 1..Len(labels) : \E j \in 1..Len(labels) : p[j] = labels[i] }

\* score lists, highest first
ScoreLists(n) ==
    { sc \in [1..n -> Scores] : \A i \in 1..n : \A j \in i..n : sc[i] >= sc[j] }

\* what the zero-shot pipeline may answer to a request: a failure, an answer
\* without scores, or the candidate labels ranked with their scores
PipelineResponses(request) ==
    {FailedResponse}
        \cup {[ok |-> TRUE, labels |-> <<>>, scores |-> <<>>]}
        \cup { [ok |-> TRUE, labels |-> p, scores |-> sc] :
                 p \in Rankings(request.candidate_labels),
                 sc \in ScoreLists(Len(request.candidate_labels)) }

\* the responses to the requests of one map_field call
ResponsesTo(requests) ==
    IF requests = <<>> THEN {FailedResponse}
    ELSE PipelineResponses(requests[1])

Mapped(value, confidence) ==
    [raised |-> FALSE, value |-> value, confidence |-> confidence]

MappingRaised == [raised |-> TRUE, value |-> "", confidence |-> 0]

\* _map_selection_field
map_selection_field(response) ==
    IF ~response.ok \/ response.scores = <<>> THEN MappingRaised
    ELSE Mapped(response.labels[1], response.scores[1])

\* variant: the pool is handed to the classifier without the emptiness test
map_text_field_unguarded(field_type, profile, response) ==
    IF ~response.ok THEN MappingRaised
    ELSE IF response.scores = <<>> THEN Mapped("", 0)
    ELSE Mapped(response.labels[1], response.scores[1])

\* _map_text_field
map_text_field(field_type, profile, response) ==
    IF extract_candidate_values(field_type, profile) = <<>> THEN Mapped("", 0)
    ELSE IF ~response.ok THEN MappingRaised
    ELSE IF response.scores = <<>> THEN Mapped("", 0)
    ELSE Mapped(response.labels[1], response.scores[1])

\* map_field: raises FieldMappingError whenever a step below it raised
map_field(field_label, field_type, profile, candidate_values, response) ==
    IF candidate_values # <<>>
    THEN map_selection_field(response)
    ELSE map_text_field(field_type, profile, response)

-----------------------------------------------------------------------------
(* FormFiller.fill_form *)

ResumePaths == {"none", "exists", "missing"}

\* variant: "return '', -1.0", a sentinel for "no confidence"
map_field_value_sentinel(mapping) ==
    IF mapping.raised THEN Mapped("", 0 - 1) ELSE mapping

\* variant: a failure of map_field propagates out of _map_field_value
map_field_value_raises(mapping) == mapping

\* _map_field_value: except Exception: return "", 0.0
map_field_value(mapping) ==
    IF mapping.raised THEN Mapped("", 0) ELSE mapping

\* the types of field whose options _map_field_value reads
HasOptions(field_type) == field_type \in {"select", "radio"}

\* _fill_field: the write it makes for a field of this type, <<>> for none
FillWrites(field, value) ==
    CASE field.field_type \in {"text", "email", "tel", "url", "textarea"} ->
            <<PageWrite("fill", field.selector, value)>>
      [] field.field_type = "select" ->
            <<PageWrite("select_option", field.selector, value)>>
      [] field.field_type = "radio" ->
            <<PageWrite("check",
                        "input[type='radio'][value='" \o value \o "']", "on")>>
      [] OTHER -> <<>>

\* the page after a sequence of at most one write
RECURSIVE ApplyWrites(_, _)
ApplyWrites(pg, writes) ==
    IF writes = <<>> THEN pg
    ELSE ApplyWrites(DictSet(pg, Head(writes).selector, Head(writes).value),
                     Tail(writes))

\* except Exception as e: raise FormFillingError(f"Failed to fill form: {str(e)}")
FillFailed(msg) == <<"Failed to fill form: ", msg>>

\* variant: a file field is never passed over
SkipsFileNever(field) == FALSE

\* if field.field_type == "file" and not resume_path: continue
SkipsFile(field) == field.field_type = "file" /\ resume_path = "none"

\* if field.field_type == "file" and resume_path: upload, continue
UploadsFile(field) == field.field_type = "file" /\ resume_path # "none"

\* variant: "filled_fields.insert(0, field)"
CollectFirst(filled, ref) == <<ref>> \o filled

\* filled_fields.append(field)
Collect(filled, ref) == Append(filled, ref)

\* the loop moves on; after the last field fill_form returns filled_fields
FillAdvance ==
    /\ fidx' = fidx + 1
    /\ fpc' = IF fidx + 1 > Len(fields) THEN "returned" ELSE "loop"
    /\ ferr' = ferr

\* an exception leaves fill_form as FormFillingError
FillRaise(msg) ==
    /\ ferr' = FillFailed(msg)
    /\ fpc' = "raised"
    /\ fidx' = fidx

\* lines 180-186: entry of fill_form
FillStart ==
    /\ fpc = "called"
    /\ IF ~pageOpen
       THEN /\ ferr' = FillFailed("Browser not initialized")
            /\ fpc' = "raised"
            /\ UNCHANGED <<fidx, filled_fields>>
       ELSE /\ filled_fields' = <<>>
            /\ fidx' = 1
            /\ fpc' = IF Len(fields) = 0 THEN "returned" ELSE "loop"
            /\ UNCHANGED ferr
    /\ UNCHANGED <<fields, page, pageWrites, verifyVars, now, pollVars, storeVars, parseVars,
                   pageOpen, resume_path, profile_data, mapLog, classifyLog,
                   applyVars>>

\* one iteration for a file field without a resume
FillSkipFile ==
    /\ fpc = "loop"
    /\ SkipsFile(fields[fidx])
    /\ FillAdvance
    /\ UNCHANGED <<fieldVars, verifyVars, now, pollVars, storeVars, parseVars, pageOpen, resume_path,
                   profile_data, mapLog, classifyLog, applyVars>>

\* one iteration for a file field with a resume: _handle_file_upload
FillUploadFile ==
    /\ fpc = "loop"
    /\ ~SkipsFile(fields[fidx])
    /\ UploadsFile(fields[fidx])
    /\ \/ /\ resume_path = "exists"
          /\ pageWrites' = Append(pageWrites,
                PageWrite("set_input_files", fields[fidx].selector, "resume"))
          /\ page' = DictSet(page, fields[fidx].selector, "resume")
          /\ filled_fields' = Collect(filled_fields, fidx)
          /\ FillAdvance
       \/ /\ resume_path = "missing"
          /\ FillRaise("Failed to upload file: Resume file not found")
          /\ UNCHANGED <<page, pageWrites, filled_fields>>
       \/ /\ resume_path = "exists"
          /\ FillRaise("Failed to upload file: set_input_files failed")
          /\ UNCHANGED <<page, pageWrites, filled_fields>>
    /\ UNCHANGED <<fields, verifyVars, now, pollVars, storeVars, parseVars, pageOpen, resume_path,
                   profile_data, mapLog, classifyLog, applyVars>>

\* one iteration for any other field: _map_field_value, then _fill_field
FillMapField ==
    /\ fpc = "loop"
    /\ ~SkipsFile(fields[fidx])
    /\ ~UploadsFile(fields[fidx])
    /\ LET field == fields[fidx]
       IN \E candidate_values \in
                (IF HasOptions(field.field_type) THEN OptionLists ELSE {<<>>}) :
          LET requests == MapFieldRequests(field.label, field.field_type,
                                           profile_data, candidate_values)
          IN \E response \in ResponsesTo(requests) :
             LET raw == map_field(field.label, field.field_type, profile_data,
                                  candidate_values, response)
                 mapping == map_field_value(raw)
                 writes == FillWrites(field, mapping.value)
             IN /\ mapLog' = Append(mapLog,
                      [ref |-> fidx, options |-> candidate_values,
                       failed |-> raw.raised, value |-> mapping.value,
                       confidence |-> mapping.confidence])
                /\ classifyLog' = classifyLog \o
                      [i \in 1..Len(requests) |->
                          [ref |-> fidx, request |-> requests[i]]]
                /\ IF mapping.raised
                   THEN /\ FillRaise("Failed to map field")
                        /\ UNCHANGED <<fields, page, pageWrites, filled_fields>>
                   ELSE IF mapping.value # ""
                   THEN \/ /\ pageWrites' = pageWrites \o writes
                           /\ page' = ApplyWrites(page, writes)
                           /\ fields' = [fields EXCEPT
                                 ![fidx].value = mapping.value,
                                 ![fidx].confidence = mapping.confidence]
                           /\ filled_fields' = Collect(filled_fields, fidx)
                           /\ FillAdvance
                        \/ /\ writes # <<>>
                           /\ FillRaise("Failed to fill field " \o field.selector)
                           /\ UNCHANGED <<fields, page, pageWrites,
                                          filled_fields>>
                   ELSE /\ FillAdvance
                        /\ UNCHANGED <<fields, page, pageWrites, filled_fields>>
    /\ UNCHANGED <<verifyVars, now, pollVars, storeVars, parseVars, pageOpen, resume_path,
                   profile_data, applyVars>>

-----------------------------------------------------------------------------
(* ApplicationManager.apply_to_job *)

\* except Exception as e: "Error during application: {e}", raise typer.Exit(1);
\* finally: form_filler.cleanup()
ApplyExit(msg) ==
    /\ aerr' = msg
    /\ apc' = "exit"
    /\ pageOpen' = FALSE

\* lines 92-102: the stored profile is read and the form filler initialized
ApplyLoadProfile ==
    /\ apc = "load"
    /\ \/ /\ ~profileStored
          /\ ApplyExit(<<"Profile data not found. Please extract your profile first.">>)
          /\ UNCHANGED profile_data
       \/ /\ profileStored
          /\ ~LinkedInProfileBound
          /\ ApplyExit(<<"name 'LinkedInProfile' is not defined">>)
          /\ UNCHANGED profile_data
       \/ /\ profileStored
          /\ LinkedInProfileBound
          /\ \/ /\ ApplyExit(<<"LinkedInProfile.from_json failed">>)
                /\ UNCHANGED profile_data
             \/ \E p \in Profiles \ {<<>>} :
                  /\ profile_data' = p
                  /\ \/ ApplyExit(<<"Failed to initialize form filler: ",
                                    "Failed to initialize Hugging Face model">>)
                     \/ /\ apc' = "navigate"
                        /\ UNCHANGED <<aerr, pageOpen>>
    /\ UNCHANGED <<fieldVars, verifyVars, now, pollVars, storeVars, parseVars, fpc, fidx, resume_path,
                   mapLog, classifyLog, ferr, profileStored,
                   LinkedInProfileBound, submitLog>>

\* line 113: navigate_to_form, which starts the browser when there is no page
ApplyNavigate ==
    /\ apc = "navigate"
    /\ \/ ApplyExit(<<"Failed to navigate to form: ", "Failed to start browser">>)
       \/ ApplyExit(<<"Failed to navigate to form: ", "Failed to load page">>)
       \/ /\ pageOpen' = TRUE
          /\ apc' = "detect"
          /\ UNCHANGED aerr
    /\ UNCHANGED <<fieldVars, verifyVars, now, pollVars, storeVars, parseVars, fpc, fidx, resume_path,
                   profile_data, mapLog, classifyLog, ferr, profileStored,
                   LinkedInProfileBound, submitLog>>

\* lines 117-121: detect_form_fields, then the call of fill_form
ApplyDetect ==
    /\ apc = "detect"
    /\ \/ /\ ApplyExit(<<"Failed to detect form fields: ", "query failed">>)
          /\ UNCHANGED <<fields, fpc>>
       \/ /\ fields' \in SeqsUpTo(ApplyFields, MaxApplyFields)
          /\ apc' = "fill"
          /\ fpc' = "called"
          /\ UNCHANGED <<aerr, pageOpen>>
    /\ UNCHANGED <<filled_fields, page, pageWrites, verifyVars, now, pollVars, storeVars, parseVars,
                   fidx, resume_path, profile_data, mapLog, classifyLog, ferr,
                   profileStored, LinkedInProfileBound, submitLog>>

\* lines 121-127: fill_form returned or raised; on return verify_form_data is called
ApplyAfterFill ==
    /\ apc = "fill"
    /\ \/ /\ fpc = "returned"
          /\ apc' = "verify"
          /\ vpc' = "idle"
          /\ UNCHANGED <<aerr, pageOpen>>
       \/ /\ fpc = "raised"
          /\ ApplyExit(ferr)
          /\ UNCHANGED vpc
    /\ UNCHANGED <<fieldVars, verification_start, confidence_threshold,
                   confidence_threshold_met, approved, modifications,
                   hm_modifications, hm_index, result, verr, inputs, rounds,
                   presented, now, pollVars, storeVars, parseVars, fpc, fidx, resume_path,
                   profile_data, mapLog, classifyLog, ferr, profileStored,
                   LinkedInProfileBound, submitLog>>

\* variant: the form is submitted whatever verification gave
ApplyAfterVerifyUnchecked ==
    /\ apc = "verify"
    /\ vpc \in {"returned", "raised"}
    /\ apc' = "submit"
    /\ UNCHANGED <<aerr, pageOpen>>
    /\ UNCHANGED <<fieldVars, verifyVars, now, pollVars, storeVars, parseVars, fpc, fidx, resume_path,
                   profile_data, mapLog, classifyLog, ferr, profileStored,
                   LinkedInProfileBound, submitLog>>

\* lines 125-147: verify_form_data returned or raised; "if result.approved"
ApplyAfterVerify ==
    /\ apc = "verify"
    /\ \/ /\ vpc = "returned"
          /\ result[1].approved
          /\ apc' = "submit"
          /\ UNCHANGED <<aerr, pageOpen>>
       \/ /\ vpc = "returned"
          /\ ~result[1].approved
          /\ apc' = "done"
          /\ pageOpen' = FALSE
          /\ UNCHANGED aerr
       \/ /\ vpc = "raised"
          /\ ApplyExit(verr)
    /\ UNCHANGED <<fieldVars, verifyVars, now, pollVars, storeVars, parseVars, fpc, fidx, resume_path,
                   profile_data, mapLog, classifyLog, ferr, profileStored,
                   LinkedInProfileBound, submitLog>>

\* lines 130-142: submit_form is invoked
ApplySubmit ==
    /\ apc = "submit"
    /\ \E outcome \in {"ok", "issues", "raised"} :
         /\ submitLog' = Append(submitLog, outcome)
         /\ IF outcome = "raised"
            THEN ApplyExit(<<"Failed to submit form: ", "Submit button not found">>)
            ELSE /\ apc' = "done"
                 /\ pageOpen' = FALSE
                 /\ UNCHANGED aerr
    /\ UNCHANGED <<fieldVars, verifyVars, now, pollVars, storeVars, parseVars, fpc, fidx, resume_path,
                   profile_data, mapLog, classifyLog, ferr, profileStored,
                   LinkedInProfileBound>>

-----------------------------------------------------------------------------
(* PDFParser: the state of a parser *)

\* the module-level huggingface_service: HuggingFaceService defines no
\* zero_shot_classify
ShippedService == [zero_shot_classify |-> FALSE, ok |-> FALSE,
                   classification |-> <<>>]

\* basic_info as _extract_basic_info starts it
EmptyBasicInfo ==
    [raised |-> FALSE, full_name |-> None, email |-> None, phone |-> None,
     linkedin |-> None, headline |-> None]

\* PDFParser.profile_data as __init__ leaves it (the lists no modelled method
\* writes are left out)
EmptyProfileData ==
    [full_name |-> None, email |-> None, phone |-> None, linkedin |-> None,
     headline |-> None, experiences |-> <<>>]

-----------------------------------------------------------------------------
(* PDFParser.segment_sections *)

\* no section yet
EmptySections == [s \in {} |-> <<>>]

\* section_markers, in the order of the dictionary
section_markers ==
    << [marker |-> "Experiência",             section_name |-> "experience"],
       [marker |-> "Formação acadêmica",      section_name |-> "education"],
       [marker |-> "Resumo",                  section_name |-> "about"],
       [marker |-> "Principais competências", section_name |-> "skills"],
       [marker |-> "Languages",               section_name |-> "languages"],
       [marker |-> "Certificações",           section_name |-> "certifications"],
       [marker |-> "Voluntariado",            section_name |-> "volunteer"] >>

\* the lines of the documents handed to segment_sections: an empty line, a
\* line of spaces, two lines of content, three header lines and a header line
\* with more text around the marker
SegmentLines ==
    { "", "  ", "abc", "Experiência", "Resumo", "Languages",
      "Certificações e cursos" }

\* line.strip(), on the lines of the model (none has spaces at its ends)
Strip(line) == IF line = "  " THEN "" ELSE line

\* "marker in line", on the lines of the model
Contains(marker, line) ==
    \/ line = marker
    \/ line = "Certificações e cursos" /\ marker = "Certificações"

\* any(m in line for m in section_markers)
AnyMarkerIn(line) ==
    \E m \in 1..Len(section_markers) : Contains(section_markers[m].marker, line)

\* if current_content: sections[current_section] = "\n".join(current_content)
\* (a section's text is kept as the list of its lines)
Flush(st) ==
    IF st.current_content # <<>>
    THEN [s \in DOMAIN st.sections \cup {st.current_section} |->
             IF s = st.current_section THEN st.current_content
             ELSE st.sections[s]]
    ELSE st.sections

\* the inner while of the about section: lines are collected up to the next
\* line holding a marker; gives the index reached and the lines collected
RECURSIVE AboutLines(_, _, _)
AboutLines(lines, i, content) ==
    IF i <= Len(lines) /\ ~AnyMarkerIn(lines[i])
    THEN AboutLines(lines, i + 1,
                    IF Strip(lines[i]) # "" THEN Append(content, Strip(lines[i]))
                    ELSE content)
    ELSE [i |-> i, current_content |-> content]

\* "continue" after the about section: it continues the loop over the
\* markers, with the header line still in hand
AboutRejoins(st, line, m) == [st EXCEPT !.marker = m + 1]

\* one iteration of "for marker, section_name in section_markers.items()":
\* st.marker is the position reached, Len + 1 when the loop ran out (the else
\* clause is then taken) and Len + 2 after a break
RECURSIVE MarkerLoop(_, _, _)
MarkerLoop(lines, st, line) ==
    LET m == st.marker
    IN IF m > Len(section_markers) THEN st
       ELSE IF Contains(section_markers[m].marker, line)
       THEN LET opened == [st EXCEPT !.sections = Flush(st),
                                     !.current_section = section_markers[m].section_name,
                                     !.current_content = <<>>]
            IN IF section_markers[m].section_name = "about"
               THEN LET about == AboutLines(lines, st.i + 1, <<>>)
                    IN MarkerLoop(lines,
                          AboutRejoins([opened EXCEPT !.i = about.i,
                                          !.current_content = about.current_content],
                                       line, m),
                          line)
               ELSE [opened EXCEPT !.marker = Len(section_markers) + 2]
       ELSE MarkerLoop(lines, [st EXCEPT !.marker = m + 1], line)

\* the while loop of segment_sections
RECURSIVE SegmentLoop(_, _)
SegmentLoop(lines, st) ==
    IF st.i > Len(lines) THEN Flush(st)
    ELSE LET line == Strip(lines[st.i])
         IN IF line = "" THEN SegmentLoop(lines, [st EXCEPT !.i = st.i + 1])
            ELSE LET after == MarkerLoop(lines, [st EXCEPT !.marker = 1], line)
                     kept == IF after.marker = Len(section_markers) + 1
                             THEN [after EXCEPT !.current_content = Append(@, line)]
                             ELSE after
                 IN SegmentLoop(lines, [kept EXCEPT !.i = kept.i + 1])

\* segment_sections(text), text.split("\n") being lines
segment_sections(lines) ==
    SegmentLoop(lines, [i |-> 1, marker |-> 1, sections |-> EmptySections,
                        current_section |-> "header", current_content |-> <<>>])

\* a caller of segment_sections
Segment ==
    /\ ppc = "segment"
    /\ sections' = segment_sections(text)
    /\ ppc' = "returned"
    /\ UNCHANGED <<fieldVars, verifyVars, now, pollVars, storeVars, fillVars, applyVars,
                   text, hf_service, basic_info, cleaned, experience_data,
                   parser_profile_data, perr, parsed_profile, stored_profile,
                   parses>>

-----------------------------------------------------------------------------
(* PDFParser.parse_experience_section *)

\* the lines of an experience section
TitleLine       == "Software Engineer"
CompanyLine     == "Acme Ltd."
DateLine        == "janeiro de 2020 - março de 2021, Brasil"
BulletLine      == "- Built things"
LongLine        == "Led the development of the platform"
DurationLine    == "2 anos 3 meses"

\* the pieces the experience sections of the model are made of: a block with
\* title, company and dates, without and with lines of description; a block
\* whose first line is no title; a title alone; the duration line; an empty
\* line
ExperienceParts ==
    { <<TitleLine, CompanyLine, DateLine>>,
      <<TitleLine, CompanyLine, DateLine, BulletLine>>,
      <<TitleLine, CompanyLine, DateLine, LongLine>>,
      <<TitleLine, CompanyLine, DateLine, BulletLine, LongLine>>,
      <<CompanyLine, DateLine, BulletLine>>,
      <<TitleLine, BulletLine>>,
      <<DurationLine>>,
      <<"">> }

\* the concatenation of a list of lists
RECURSIVE Concat(_)
Concat(parts) == IF parts = <<>> THEN <<>> ELSE Head(parts) \o Concat(Tail(parts))

\* re.search(r"\d+\s+anos?\s+\d+\s+meses?", line)
IsDurationHeader(line) == line = DurationLine

\* re.match(r"^[A-Za-z\s&]+$", line)
MatchesTitle(line) == line \in {TitleLine, LongLine}

\* re.findall(date_pattern, line, re.IGNORECASE), as "month de year"
DatesIn(line) ==
    IF line = DateLine THEN <<"janeiro de 2020", "março de 2021">> ELSE <<>>

\* line.split(",")[-1].strip() when the line has a comma, None otherwise
LocationIn(line) == IF line = DateLine THEN "Brasil" ELSE None

\* line.startswith(("- ", "• "))
IsBullet(line) == line = BulletLine

\* line[2:].strip()
BulletText(line) == IF line = BulletLine THEN "Built things" ELSE line

\* len(line) > 20
IsLong(line) == line \in {LongLine, DateLine}

\* DateParsingMixin.parse_date_str; a datetime it returns is written as
\* year-month.  The Portuguese pattern is searched first, then the formats
\* "%B %Y", "%Y-%m" and "%Y" are tried on the whole string; any other string,
\* "2020-01-01 00:00:00" among them, gives None
parse_date_str(d) ==
    CASE d = "janeiro de 2020" -> "2020-01"
      [] d = "março de 2021"   -> "2021-03"
      [] d = "January 2020"    -> "2020-01"
      [] d = "2020-01"         -> "2020-01"
      [] d = "2020"            -> "2020-01"
      [] OTHER                 -> None

\* current_exp = {}: a key that is not set is None
EmptyExp ==
    [title |-> None, company |-> None, location |-> None, start_date |-> None,
     end_date |-> None, description |-> <<>>]

\* Experience(**current_exp) validates: title and company are required
IsValidExperience(exp) == exp.title # None /\ exp.company # None

\* the Experience built from current_exp
Experience(exp) ==
    [exp EXCEPT !.start_date = parse_date_str(exp.start_date),
                !.end_date = parse_date_str(exp.end_date)]

\* experiences.append(Experience(**current_exp)) inside try/except
\* ValidationError: an entry that does not validate is logged and left out
AppendExperience(experiences, exp) ==
    IF IsValidExperience(exp) THEN Append(experiences, Experience(exp))
    ELSE experiences

\* _process_job_details: the entry and the description lines after the line
process_job_details(line, lines, i, current_exp, description_lines) ==
    IF current_exp = EmptyExp /\ MatchesTitle(line)
    THEN [current_exp |-> [current_exp EXCEPT !.title = line],
          description_lines |-> description_lines]
    ELSE IF DatesIn(line) # <<>>
    THEN LET dates == DatesIn(line)
             dated == [current_exp EXCEPT
                          !.start_date = dates[1],
                          !.end_date = IF Len(dates) > 1 THEN dates[2] ELSE @,
                          !.location = IF LocationIn(line) # None
                                       THEN LocationIn(line) ELSE @]
         IN [current_exp |-> IF i > 1
                             THEN [dated EXCEPT !.company = Strip(lines[i - 1])]
                             ELSE dated,
             description_lines |-> description_lines]
    ELSE IF Truthy(current_exp.company)
    THEN [current_exp |-> current_exp,
          description_lines |->
             IF IsBullet(line) THEN Append(description_lines, BulletText(line))
             ELSE IF IsLong(line) THEN Append(description_lines, line)
             ELSE description_lines]
    ELSE [current_exp |-> current_exp, description_lines |-> description_lines]

\* if current_exp and description_lines: at a duration header
FlushesAtDuration(current_exp, description_lines) ==
    current_exp # EmptyExp /\ description_lines # <<>>

\* the while loop of parse_experience_section and the final entry
RECURSIVE ExperienceLoop(_, _)
ExperienceLoop(lines, st) ==
    IF st.i > Len(lines)
    THEN IF st.current_exp # EmptyExp
         THEN AppendExperience(st.experiences,
                 [st.current_exp EXCEPT !.description = st.description_lines])
         ELSE st.experiences
    ELSE LET line == Strip(lines[st.i])
         IN IF line = "" THEN ExperienceLoop(lines, [st EXCEPT !.i = st.i + 1])
            ELSE IF IsDurationHeader(line)
            THEN ExperienceLoop(lines,
                   [i |-> st.i + 1,
                    experiences |->
                       IF FlushesAtDuration(st.current_exp, st.description_lines)
                       THEN AppendExperience(st.experiences,
                               [st.current_exp EXCEPT
                                   !.description = st.description_lines])
                       ELSE st.experiences,
                    current_exp |-> EmptyExp,
                    description_lines |-> <<>>])
            ELSE LET after == process_job_details(line, lines, st.i,
                                  st.current_exp, st.description_lines)
                 IN ExperienceLoop(lines,
                       [st EXCEPT !.i = st.i + 1,
                                  !.current_exp = after.current_exp,
                                  !.description_lines = after.description_lines])

\* parse_experience_section(content): the list stored as
\* profile_data["experiences"], content.split("\n") being lines
parse_experience_section(lines) ==
    ExperienceLoop(lines, [i |-> 1, experiences |-> <<>>,
                           current_exp |-> EmptyExp, description_lines |-> <<>>])

\* a caller of parse_experience_section
ParseExperience ==
    /\ ppc = "experience"
    /\ parser_profile_data' =
          [parser_profile_data EXCEPT !.experiences = parse_experience_section(text)]
    /\ ppc' = "returned"
    /\ UNCHANGED <<fieldVars, verifyVars, now, pollVars, storeVars, fillVars, applyVars,
                   text, sections, hf_service, basic_info, cleaned,
                   experience_data, perr, parsed_profile, stored_profile, parses>>

-----------------------------------------------------------------------------
(* _extract_basic_info *)

\* the lines of the texts handed to _extract_basic_info
InfoLines ==
    { "", "Contato John Doe", "John Doe", "Engineer at Acme",
      "+55 119 555 1234", "www.linkedin.com/in/jd", "j@x.io" }

\* [line.strip() for line in text.split("\n") if line.strip()]
RECURSIVE StrippedLines(_)
StrippedLines(lines) ==
    IF lines = <<>> THEN <<>>
    ELSE (IF Strip(Head(lines)) # "" THEN <<Strip(Head(lines))>> ELSE <<>>)
            \o StrippedLines(Tail(lines))

\* the match of email_pattern in a line, None when there is none
EmailIn(line) == IF line = "j@x.io" THEN "j@x.io" ELSE None

\* the match of phone_pattern in a line
PhoneIn(line) == IF line = "+55 119 555 1234" THEN "+55 119 555 1234" ELSE None

\* the match of linkedin_pattern in a line
LinkedinIn(line) ==
    IF line = "www.linkedin.com/in/jd" THEN "www.linkedin.com/in/jd" ELSE None

\* re.search(pattern, text): the match in the first line that has one
RECURSIVE FirstEmail(_)
FirstEmail(lines) ==
    IF lines = <<>> THEN None
    ELSE IF EmailIn(Head(lines)) # None THEN EmailIn(Head(lines))
    ELSE FirstEmail(Tail(lines))

RECURSIVE FirstPhone(_)
FirstPhone(lines) ==
    IF lines = <<>> THEN None
    ELSE IF PhoneIn(Head(lines)) # None THEN PhoneIn(Head(lines))
    ELSE FirstPhone(Tail(lines))

RECURSIVE FirstLinkedin(_)
FirstLinkedin(lines) ==
    IF lines = <<>> THEN None
    ELSE IF LinkedinIn(Head(lines)) # None THEN LinkedinIn(Head(lines))
    ELSE FirstLinkedin(Tail(lines))

\* line.startswith("Contato ")
IsContactLine(line) == line = "Contato John Doe"

\* line.replace("Contato ", "").strip()
ContactName(line) == IF line = "Contato John Doe" THEN "John Doe" ELSE line

\* any(next_line.startswith(prefix) for prefix in ("Contato", "+", "www", "http"))
HeadlineExcluded(line) ==
    line \in {"Contato John Doe", "+55 119 555 1234", "www.linkedin.com/in/jd"}

\* the first of the lines that may be a headline, None when there is none
RECURSIVE FirstHeadline(_)
FirstHeadline(lines) ==
    IF lines = <<>> THEN None
    ELSE IF ~HeadlineExcluded(Head(lines)) THEN Head(lines)
    ELSE FirstHeadline(Tail(lines))

\* the position of the first contact line at or after k, 0 when there is none
RECURSIVE ContactAt(_, _)
ContactAt(lines, k) ==
    IF k > Len(lines) THEN 0
    ELSE IF IsContactLine(lines[k]) THEN k
    ELSE ContactAt(lines, k + 1)

\* candidate_labels of the fallback request
NameLabels == <<"full_name", "headline", "other">>

\* the score lists a prediction may carry, highest first
NameScores == { <<90, 5, 5>>, <<80, 15, 5>>, <<50, 30, 20>> }

\* what zero_shot_classify may answer for the first line: its labels ranked,
\* with their scores, or a prediction without scores
Predictions ==
    { [labels |-> p, scores |-> sc] : p \in Rankings(NameLabels), sc \in NameScores }
        \cup { [labels |-> <<>>, scores |-> <<>>] }

\* the services a caller may hand to _extract_basic_info: the shipped one,
\* one whose call raises, one that answers with an empty list, and one that
\* answers with a prediction (those of the later lines are never read)
Services ==
    { ShippedService,
      [zero_shot_classify |-> TRUE, ok |-> FALSE, classification |-> <<>>],
      [zero_shot_classify |-> TRUE, ok |-> TRUE, classification |-> <<>>] }
        \cup { [zero_shot_classify |-> TRUE, ok |-> TRUE, classification |-> <<p>>] :
                 p \in Predictions }

\* predictions.get("scores", [0])[0] > 0.8
NameScoreAccepted(predictions) == predictions.scores[1] > 80

\* the fallback: lines[:2] are classified; the first becomes the name when
\* the first score of its prediction is above 0.8, the second the headline
ClassifyName(info, lines, service) ==
    IF ~service.zero_shot_classify \/ ~service.ok
    THEN [info EXCEPT !.raised = TRUE]
    ELSE LET predictions == IF service.classification # <<>>
                            THEN service.classification[1]
                            ELSE [labels |-> <<>>, scores |-> <<0>>]
         IN IF predictions.scores = <<>>
            THEN [info EXCEPT !.raised = TRUE]
            ELSE [info EXCEPT
                    !.full_name = IF NameScoreAccepted(predictions)
                                  THEN lines[1] ELSE @,
                    !.headline = IF Len(lines) > 1 /\ ~Truthy(info.headline)
                                 THEN lines[2] ELSE @]

\* _extract_basic_info(text, hf_service), text.split("\n") being raw_lines.
\* raised: the call ends in an exception (the handler's own "raise
\* FieldMappingError" is a NameError, the module never imports that name)
extract_basic_info(raw_lines, service) ==
    LET lines == StrippedLines(raw_lines)
        c == ContactAt(lines, 1)
        found == [EmptyBasicInfo EXCEPT
                    !.email = FirstEmail(raw_lines),
                    !.phone = FirstPhone(raw_lines),
                    !.linkedin = FirstLinkedin(raw_lines),
                    !.full_name = IF c # 0 THEN ContactName(lines[c]) ELSE @,
                    !.headline = IF c # 0
                                 THEN FirstHeadline(SubSeq(lines, c + 1, Len(lines)))
                                 ELSE @]
    IN IF ~Truthy(found.full_name) /\ lines # <<>>
       THEN ClassifyName(found, lines, service)
       ELSE found

\* a caller of _extract_basic_info
ExtractBasicInfo ==
    /\ ppc = "basic_info"
    /\ basic_info' = extract_basic_info(text, hf_service)
    /\ ppc' = IF basic_info'.raised THEN "raised" ELSE "returned"
    /\ perr' = IF basic_info'.raised
               THEN <<"name 'FieldMappingError' is not defined">> ELSE perr
    /\ UNCHANGED <<fieldVars, verifyVars, now, pollVars, storeVars, fillVars, applyVars,
                   text, sections, hf_service, cleaned, experience_data,
                   parser_profile_data, parsed_profile, stored_profile, parses>>

-----------------------------------------------------------------------------
(* PDFParser.parse_profile and create_profile_from_pdf.  The module imports   *)
(* ProfileParsingError from app.utils.exceptions, which defines no such      *)
(* class; the model is of a process in which that import succeeds and the    *)
(* exception carries the message it is built with.                           *)

\* the lines of the texts extract_raw_text may give
ProfileLines == { "", "Contato John Doe", "John Doe", "Experiência" }

\* "\n".join(text_chunks).replace("\r", "\n").strip(): a text that is not
\* empty neither starts nor ends with an empty line
ProfileTexts ==
    { t \in SeqsUpTo(ProfileLines, MaxProfileLines) :
        t # <<>> => (t[1] # "" /\ t[Len(t)] # "") }

\* except Exception as e: raise ProfileParsingError(f"Failed to parse profile: {str(e)}")
ParseFailed(msg) == <<"Failed to parse profile: ", msg>>

\* _parse_experience_text: one entry, with a title only, for every line of
\* the section that is not empty
parse_experience_text(lines) ==
    [k \in 1..Len(StrippedLines(lines)) |->
        [EmptyExp EXCEPT !.title = StrippedLines(lines)[k]]]

\* parse_sections: experience_data is assigned only when the sections have
\* an experience section
parse_sections(sects, data) ==
    IF "experience" \in DOMAIN sects
    THEN <<parse_experience_text(sects["experience"])>>
    ELSE data

\* self.profile_data.update(basic_info)
UpdateBasicInfo(data, info) ==
    [data EXCEPT !.full_name = info.full_name, !.email = info.email,
                 !.phone = info.phone, !.linkedin = info.linkedin,
                 !.headline = info.headline]

\* LinkedInProfile(**self.profile_data) validates: full_name is a string and
\* every entry of experiences validates as an Experience
IsValidProfile(data) ==
    /\ data.full_name # None
    /\ \A k \in 1..Len(data.experiences) : IsValidExperience(data.experiences[k])

\* parse_profile(pdf_path), and for a profile returned to
\* create_profile_from_pdf the write of user_profile.json
parse_profile ==
    /\ ppc = "profile"
    /\ parses' = parses + 1
    /\ \/ \* extract_raw_text raises IOError
          /\ perr' = ParseFailed("Failed to extract text from PDF")
          /\ ppc' = "raised"
          /\ basic_info' = EmptyBasicInfo
          /\ sections' = EmptySections
          /\ UNCHANGED <<experience_data, parser_profile_data, parsed_profile,
                         stored_profile>>
       \/ LET info == extract_basic_info(text, hf_service)
              sects == segment_sections(text)
              data == parse_sections(sects, experience_data)
              updated == UpdateBasicInfo(parser_profile_data, info)
              assembled == [updated EXCEPT !.experiences = data[1]]
          IN /\ basic_info' = info
             /\ IF info.raised
                THEN /\ perr' = ParseFailed("name 'FieldMappingError' is not defined")
                     /\ ppc' = "raised"
                     /\ sections' = EmptySections
                     /\ UNCHANGED <<experience_data, parser_profile_data,
                                    parsed_profile, stored_profile>>
                ELSE /\ sections' = sects
                     /\ experience_data' = data
                     /\ IF data = <<>>
                        THEN /\ perr' = ParseFailed(
                                  "'PDFParser' object has no attribute 'experience_data'")
                             /\ ppc' = "raised"
                             /\ parser_profile_data' = updated
                             /\ UNCHANGED <<parsed_profile, stored_profile>>
                        ELSE /\ parser_profile_data' = assembled
                             /\ IF ~Truthy(assembled.full_name)
                                THEN /\ perr' = ParseFailed(
                                          "Full name is missing from the profile data")
                                     /\ ppc' = "raised"
                                     /\ UNCHANGED <<parsed_profile, stored_profile>>
                                ELSE IF ~IsValidProfile(assembled)
                                THEN /\ perr' = ParseFailed("Invalid profile data")
                                     /\ ppc' = "raised"
                                     /\ UNCHANGED <<parsed_profile, stored_profile>>
                                ELSE /\ parsed_profile' = <<assembled>>
                                     /\ stored_profile' = <<assembled>>
                                     /\ ppc' = "returned"
                                     /\ UNCHANGED perr
    /\ UNCHANGED <<fieldVars, verifyVars, now, pollVars, storeVars, fillVars, applyVars,
                   text, hf_service, cleaned>>

\* the same parser is handed another document
ParseAgain ==
    /\ ppc \in {"raised", "returned"}
    /\ parses < MaxParses
    /\ text' \in ProfileTexts
    /\ ppc' = "profile"
    /\ perr' = <<>>
    /\ parsed_profile' = <<>>
    /\ basic_info' = EmptyBasicInfo
    /\ sections' = EmptySections
    /\ UNCHANGED <<fieldVars, verifyVars, now, pollVars, storeVars, fillVars, applyVars,
                   hf_service, cleaned, experience_data, parser_profile_data,
                   stored_profile, parses>>

-----------------------------------------------------------------------------
(* clean_text.  A text is the sequence of its characters.                    *)

SOH == "<SOH>"     \* the control character \x01
LF == "<LF>"       \* the line feed \n

\* the characters of the texts handed to clean_text
TextChars == { "a", " ", LF, SOH, "," }

\* \s of a str pattern
IsSpace(c) == c \in { " ", LF }

\* [\x00-\x1F\x7F-\x9F]
IsControl(c) == c \in { LF, SOH }

\* [,.!?]
IsPunctuation(c) == c \in { "," }

\* the number of whitespace characters s starts with
RECURSIVE LeadingSpaces(_)
LeadingSpaces(s) ==
    IF s # <<>> /\ IsSpace(s[1]) THEN 1 + LeadingSpaces(Tail(s)) ELSE 0

\* s without the whitespace it starts with
SkipSpaces(s) == SubSeq(s, LeadingSpaces(s) + 1, Len(s))

\* re.sub(r"\s+", " ", text)
RECURSIVE CollapseSpaces(_)
CollapseSpaces(s) ==
    IF s = <<>> THEN <<>>
    ELSE IF IsSpace(s[1]) THEN <<" ">> \o CollapseSpaces(SkipSpaces(s))
    ELSE <<s[1]>> \o CollapseSpaces(Tail(s))

\* re.sub(r"[\x00-\x1F\x7F-\x9F]", "", text)
RemoveControl(s) == SelectSeq(s, LAMBDA c : ~IsControl(c))

\* re.sub(r"\s*([,.!?])\s*", r"\1 ", text): at the leftmost position where
\* whitespace, a punctuation character and whitespace match, they are
\* replaced by the character and one space
RECURSIVE NormalizePunctuation(_)
NormalizePunctuation(s) ==
    IF s = <<>> THEN <<>>
    ELSE LET rest == SkipSpaces(s)
         IN IF rest # <<>> /\ IsPunctuation(rest[1])
            THEN <<rest[1], " ">> \o NormalizePunctuation(SkipSpaces(Tail(rest)))
            ELSE <<s[1]>> \o NormalizePunctuation(Tail(s))

\* the characters of s in reverse order
RECURSIVE Reverse(_)
Reverse(s) == IF s = <<>> THEN <<>> ELSE Append(Reverse(Tail(s)), s[1])

\* text.strip()
StripText(s) == Reverse(SkipSpaces(Reverse(SkipSpaces(s))))

\* clean_text(text)
clean_text(s) ==
    StripText(NormalizePunctuation(RemoveControl(CollapseSpaces(s))))

\* clean_text(text)
Clean ==
    /\ ppc = "clean"
    /\ cleaned' = <<clean_text(text)>>
    /\ ppc' = "cleaned"
    /\ UNCHANGED <<fieldVars, verifyVars, now, pollVars, storeVars, fillVars, applyVars,
                   text, sections, hf_service, basic_info, experience_data,
                   parser_profile_data, perr, parsed_profile, stored_profile,
                   parses>>

\* clean_text of the text clean_text returned
CleanAgain ==
    /\ ppc = "cleaned"
    /\ cleaned' = Append(cleaned, clean_text(cleaned[1]))
    /\ ppc' = "recleaned"
    /\ UNCHANGED <<fieldVars, verifyVars, now, pollVars, storeVars, fillVars, applyVars,
                   text, sections, hf_service, basic_info, experience_data,
                   parser_profile_data, perr, parsed_profile, stored_profile,
                   parses>>

-----------------------------------------------------------------------------
(* LinkedInProfile.to_json and LinkedInProfile.from_json *)

\* the date strings of the data a profile is built from
DateStrings ==
    { None, "janeiro de 2020", "março de 2021", "January 2020", "2020-01",
      "2020", "soon" }

\* the experience entries of the data a profile is built from
ExperienceInputs ==
    { [EmptyExp EXCEPT !.title = TitleLine, !.company = CompanyLine,
                       !.start_date = d, !.end_date = e] :
        d \in DateStrings, e \in {None, "março de 2021"} }

\* the education entries of the data a profile is built from
EducationInputs ==
    { [institution |-> "MIT", degree |-> "BSc", start_date |-> d,
       end_date |-> None] : d \in {None, "2020"} }

\* Education(**entry): the validator parses both dates
Education(entry) ==
    [entry EXCEPT !.start_date = parse_date_str(entry.start_date),
                  !.end_date = parse_date_str(entry.end_date)]

\* LinkedInProfile(**data), for data that validates
LinkedInProfile(data) ==
    [full_name |-> data.full_name,
     experiences |-> [k \in 1..Len(data.experiences) |->
                         Experience(data.experiences[k])],
     education |-> [k \in 1..Len(data.education) |->
                       Education(data.education[k])]]

\* json.dump(..., default=str) of a date field: None is written as null and
\* a datetime as str(datetime)
DumpDate(v) ==
    CASE v = None      -> None
      [] v = "2020-01" -> "2020-01-01 00:00:00"
      [] v = "2021-03" -> "2021-03-01 00:00:00"

\* the date fields of an entry as json.dump writes them
DumpEntry(entry) ==
    [entry EXCEPT !.start_date = DumpDate(entry.start_date),
                  !.end_date = DumpDate(entry.end_date)]

\* to_json: json.dump(self.dict(), f, indent=2, default=str)
to_json(profile) ==
    [full_name |-> profile.full_name,
     experiences |-> [k \in 1..Len(profile.experiences) |->
                         DumpEntry(profile.experiences[k])],
     education |-> [k \in 1..Len(profile.education) |->
                       DumpEntry(profile.education[k])]]

\* from_json: cls(**json.load(f))
from_json(document) == LinkedInProfile(document)

\* profile.to_json(path)
ToJson ==
    /\ jpc = "built"
    /\ profile_json' = <<to_json(linkedin_profile[1])>>
    /\ jpc' = "written"
    /\ UNCHANGED <<fieldVars, verifyVars, now, pollVars, fillVars, applyVars,
                   parseVars, linkedin_profile, reloaded_profile, chunkVars,
                   storageVars>>

\* LinkedInProfile.from_json(path)
FromJson ==
    /\ jpc = "written"
    /\ reloaded_profile' = <<from_json(profile_json[1])>>
    /\ jpc' = "read"
    /\ UNCHANGED <<fieldVars, verifyVars, now, pollVars, fillVars, applyVars,
                   parseVars, linkedin_profile, profile_json, chunkVars,
                   storageVars>>

-----------------------------------------------------------------------------
(* UtilityHelpers.chunk_text.  The text is the sequence of its characters;   *)
(* the indices are those of Python, from 0.                                  *)

\* the characters of the texts handed to chunk_text
ChunkChars == { "a", " " }

\* the position a slice bound i denotes in a string of n characters
SliceIndex(i, n) ==
    IF i < 0 THEN (IF i + n < 0 THEN 0 ELSE i + n)
    ELSE IF i > n THEN n ELSE i

\* s[lo:hi]
Slice(s, lo, hi) ==
    SubSeq(s, SliceIndex(lo, Len(s)) + 1, SliceIndex(hi, Len(s)))

\* s.rfind(" ", lo, hi): the highest index of a space in s[lo:hi], or -1
rfind_space(s, lo, hi) ==
    LET found == { p \in SliceIndex(lo, Len(s))..(SliceIndex(hi, Len(s)) - 1) :
                     s[p + 1] = " " }
    IN IF found = {} THEN 0 - 1
       ELSE CHOOSE p \in found : \A q \in found : q <= p

\* the end of the chunk that starts at st: the end of the text, or the last
\* space of the window when the window has one
chunk_end(s, st, size) ==
    IF st + size > Len(s) THEN Len(s)
    ELSE IF rfind_space(s, st, st + size) # 0 - 1
    THEN rfind_space(s, st, st + size)
    ELSE st + size

\* start = end - overlap
next_start(end, ov) == end - ov

\* chunks.append(...): the model keeps the first MaxChunks chunks of the list
KeepChunk(list, chunk) ==
    IF Len(list) < MaxChunks THEN Append(list, chunk) ELSE list

\* one iteration of "while start < text_length"
ChunkStep ==
    /\ cpc = "loop"
    /\ start < Len(text)
    /\ LET end == chunk_end(text, start, chunk_size)
       IN /\ chunks' = KeepChunk(chunks, StripText(Slice(text, start, end)))
          /\ start' = next_start(end, overlap)
    /\ UNCHANGED <<fieldVars, verifyVars, now, pollVars, fillVars, applyVars,
                   parseVars, jsonVars, chunk_size, overlap, cpc, storageVars>>

\* the loop ends: return chunks
ChunkReturn ==
    /\ cpc = "loop"
    /\ ~(start < Len(text))
    /\ cpc' = "returned"
    /\ UNCHANGED <<fieldVars, verifyVars, now, pollVars, fillVars, applyVars,
                   parseVars, jsonVars, chunk_size, overlap, start, chunks,
                   storageVars>>

-----------------------------------------------------------------------------
(* StorageManager: the encryption key.  A manager is made by one process;    *)
(* the managers of several processes share the data directory.               *)

\* the storage managers
Managers == 1..MaxManagers

\* a StorageManager not made yet
NoManager == [pc |-> "none", encryption_key |-> None]

\* Fernet.generate_key(): a key no other call has given
generate_key(m) ==
    CASE m = 1 -> "key1"
      [] m = 2 -> "key2"
      [] OTHER -> "key3"

\* the keys a key file may hold
Keys == { "key0", "key1", "key2", "key3" }

\* except Exception as e: raise StorageError(f"Failed to initialize encryption: ...")
InitFailed(msg) == <<"Failed to initialize encryption: ", msg>>

\* StorageManager(): __init__ up to "if not key_path.exists()"; without a
\* key file the key is generated
CheckKeyFile(m) ==
    /\ managers[m].pc = "none"
    /\ managers' = [managers EXCEPT ![m] =
          IF key_file = <<>>
          THEN [pc |-> "open", encryption_key |-> generate_key(m)]
          ELSE [pc |-> "read", encryption_key |-> None]]
    /\ UNCHANGED <<fieldVars, verifyVars, now, pollVars, fillVars, applyVars,
                   parseVars, jsonVars, chunkVars, key_file, profile_file,
                   loaded_data, records_file, fetched_records, serr,
                   storage_calls>>

\* open(key_path, "wb"): the file is there and empty
OpenKeyFile(m) ==
    /\ managers[m].pc = "open"
    /\ key_file' = <<"">>
    /\ managers' = [managers EXCEPT ![m].pc = "write"]
    /\ UNCHANGED <<fieldVars, verifyVars, now, pollVars, fillVars, applyVars,
                   parseVars, jsonVars, chunkVars, profile_file, loaded_data,
                   records_file, fetched_records, serr, storage_calls>>

\* f.write(self._encryption_key), the file is closed, Fernet(key)
WriteKeyFile(m) ==
    /\ managers[m].pc = "write"
    /\ key_file' = <<managers[m].encryption_key>>
    /\ managers' = [managers EXCEPT ![m].pc = "ready"]
    /\ UNCHANGED <<fieldVars, verifyVars, now, pollVars, fillVars, applyVars,
                   parseVars, jsonVars, chunkVars, profile_file, loaded_data,
                   records_file, fetched_records, serr, storage_calls>>

\* self._encryption_key = f.read(), Fernet(key): a file another process has
\* opened and not yet written is read as empty, and Fernet refuses the key
ReadKeyFile(m) ==
    /\ managers[m].pc = "read"
    /\ IF key_file[1] = ""
       THEN /\ managers' = [managers EXCEPT ![m] =
                   [pc |-> "failed", encryption_key |-> ""]]
            /\ serr' = InitFailed("Fernet key must be 32 url-safe base64-encoded bytes.")
       ELSE /\ managers' = [managers EXCEPT ![m] =
                   [pc |-> "ready", encryption_key |-> key_file[1]]]
            /\ UNCHANGED serr
    /\ UNCHANGED <<fieldVars, verifyVars, now, pollVars, fillVars, applyVars,
                   parseVars, jsonVars, chunkVars, key_file, profile_file,
                   loaded_data, records_file, fetched_records, storage_calls>>

-----------------------------------------------------------------------------
(* StorageManager.store_profile_data and load_profile_data, with the         *)
(* default encrypt_sensitive = True and decrypt_sensitive = True.            *)

\* sensitive_fields
sensitive_fields == { "email", "phone", "address" }

\* the profile dictionaries handed to store_profile_data
ProfileDicts ==
    { [k \in {"full_name"} |-> "John Doe"],
      [k \in {"full_name", "email"} |->
          IF k = "email" THEN None ELSE "John Doe"],
      [k \in {"full_name", "email", "phone"} |->
          CASE k = "email" -> "j@x.io"
            [] k = "phone" -> "+55 119 555 1234"
            [] OTHER -> "John Doe"] }

\* str(value)
PyStr(v) == IF v = None THEN "None" ELSE v

\* the strings _encrypt_data is handed
Plaintexts == { "None", "j@x.io", "+55 119 555 1234" }

\* Fernet(key).encrypt(data): a token only the key opens
Encrypt(key, data) == "fernet(" \o key \o ", " \o data \o ")"

\* bytes.hex()
Hex(token) == "hex:" \o token

\* self._decrypt_data(bytes.fromhex(stored)): <<the plaintext>>, or <<>> when
\* the token was not made with the manager's key
Decrypt(key, stored) ==
    IF \E plain \in Plaintexts : stored = Hex(Encrypt(key, plain))
    THEN <<CHOOSE plain \in Plaintexts : stored = Hex(Encrypt(key, plain))>>
    ELSE <<>>

\* the dictionary store_profile_data writes
storage_data(key, data) ==
    [k \in DOMAIN data |->
        IF k \in sensitive_fields THEN Hex(Encrypt(key, PyStr(data[k])))
        ELSE data[k]]

\* the dictionary load_profile_data returns for a file it can decrypt
decrypted_data(key, data) ==
    [k \in DOMAIN data |->
        IF k \in sensitive_fields THEN Decrypt(key, data[k])[1] ELSE data[k]]

\* every sensitive field of the file opens with the key
CanDecrypt(key, data) ==
    \A k \in DOMAIN data \cap sensitive_fields : Decrypt(key, data[k]) # <<>>

\* the last two calls made on the managers
Called(call) ==
    IF storage_calls = <<>> THEN <<call>>
    ELSE <<storage_calls[Len(storage_calls)], call>>

\* manager.store_profile_data(profile)
StoreProfile(m) ==
    /\ managers[m].pc = "ready"
    /\ \E data \in ProfileDicts :
          /\ profile_file' = <<storage_data(managers[m].encryption_key, data)>>
          /\ storage_calls' = Called([op |-> "store_profile_data",
                                      manager |-> m, data |-> data])
    /\ serr' = <<>>
    /\ loaded_data' = <<>>
    /\ UNCHANGED <<fieldVars, verifyVars, now, pollVars, fillVars, applyVars,
                   parseVars, jsonVars, chunkVars, key_file, managers,
                   records_file, fetched_records>>

\* manager.load_profile_data()
LoadProfile(m) ==
    /\ managers[m].pc = "ready"
    /\ storage_calls' = Called([op |-> "load_profile_data", manager |-> m,
                                data |-> EmptyMap])
    /\ IF profile_file = <<>>
       THEN /\ serr' = <<"Failed to load profile data: ", "Profile data not found">>
            /\ loaded_data' = <<>>
       ELSE IF ~CanDecrypt(managers[m].encryption_key, profile_file[1])
       THEN /\ serr' = <<"Failed to load profile data: ", "Failed to decrypt data: ">>
            /\ loaded_data' = <<>>
       ELSE /\ serr' = <<>>
            /\ loaded_data' =
                  <<decrypted_data(managers[m].encryption_key, profile_file[1])>>
    /\ UNCHANGED <<fieldVars, verifyVars, now, pollVars, fillVars, applyVars,
                   parseVars, jsonVars, chunkVars, key_file, managers,
                   profile_file, records_file, fetched_records>>

-----------------------------------------------------------------------------
(* StorageManager: the application records *)

\* the job URLs of the records
JobUrls == { "https://example.com/job/1", "https://example.com/job/2" }

\* the application dates of the records, as datetime objects
Datetimes == { "datetime(2024, 1, 1, 9, 0)", "datetime(2024, 1, 2, 9, 0)" }

\* str(datetime), which json.dump(..., default=str) writes
DatetimeStr(d) ==
    CASE d = "datetime(2024, 1, 1, 9, 0)" -> "2024-01-01 09:00:00"
      [] d = "datetime(2024, 1, 2, 9, 0)" -> "2024-01-02 09:00:00"

\* datetime.fromisoformat(text)
fromisoformat(t) ==
    CASE t = "2024-01-01 09:00:00" -> "datetime(2024, 1, 1, 9, 0)"
      [] t = "2024-01-02 09:00:00" -> "datetime(2024, 1, 2, 9, 0)"

\* valid_statuses of ApplicationRecord.validate_status
valid_statuses == { "submitted", "pending", "accepted", "rejected" }

\* value.lower(), on the statuses of the model
Lower(value) == IF value = "Pending" THEN "pending" ELSE value

\* the statuses handed to update_application_status
NewStatuses == { "accepted", "invalid_status" }

\* ApplicationRecord(**data) validates: the status, in lower case, is one of
\* valid_statuses
IsValidRecord(data) == Lower(data.status) \in valid_statuses

\* the ApplicationRecord objects handed to store_application_record: the
\* validator has put their status in lower case
RecordInputs ==
    { [job_url |-> u, application_date |-> d, status |-> Lower(st)] :
        u \in JobUrls, d \in Datetimes, st \in {"submitted", "Pending"} }

\* record.dict() as json.dump(..., default=str) writes it
RecordEntry(record) ==
    [record EXCEPT !.application_date = DatetimeStr(record.application_date)]

\* ApplicationRecord(**record_data) for an entry of the file
ApplicationRecord(entry) ==
    [entry EXCEPT !.application_date = fromisoformat(entry.application_date),
                  !.status = Lower(entry.status)]

\* the list in application_records.json, [] when there is no file
RecordsOf(file) == IF file = <<>> THEN <<>> ELSE file[1]

\* the test of the loop of update_application_status: the record has the
\* job URL and, when a date is given, that date
Matches(entry, job_url, application_date) ==
    /\ entry.job_url = job_url
    /\ application_date # None =>
          fromisoformat(entry.application_date) = application_date

\* variant: the loop has no "break", every matching record is updated
RECURSIVE update_every_record(_, _, _, _)
update_every_record(records, job_url, new_status, application_date) ==
    IF records = <<>> THEN [updated |-> FALSE, records |-> <<>>]
    ELSE LET rest == update_every_record(Tail(records), job_url, new_status,
                                         application_date)
         IN IF Matches(Head(records), job_url, application_date)
            THEN [updated |-> TRUE,
                  records |-> <<[Head(records) EXCEPT !.status = new_status]>>
                              \o rest.records]
            ELSE [rest EXCEPT !.records = <<Head(records)>> \o @]

\* the loop of update_application_status: the first matching record gets
\* the new status and the loop is left
RECURSIVE update_first_record(_, _, _, _)
update_first_record(records, job_url, new_status, application_date) ==
    IF records = <<>> THEN [updated |-> FALSE, records |-> <<>>]
    ELSE IF Matches(Head(records), job_url, application_date)
    THEN [updated |-> TRUE,
          records |-> <<[Head(records) EXCEPT !.status = new_status]>>
                      \o Tail(records)]
    ELSE LET rest == update_first_record(Tail(records), job_url, new_status,
                                         application_date)
         IN [rest EXCEPT !.records = <<Head(records)>> \o @]

\* some storage manager is ready to be called
ManagerReady == \E m \in Managers : managers[m].pc = "ready"

\* manager.store_application_record(record)
StoreRecord ==
    /\ ManagerReady
    /\ Len(RecordsOf(records_file)) < MaxRecords
    /\ \E record \in RecordInputs :
          /\ records_file' = <<Append(RecordsOf(records_file), RecordEntry(record))>>
          /\ storage_calls' = <<[op |-> "store_application_record",
                                 job_url |-> record.job_url,
                                 new_status |-> record.status,
                                 application_date |-> record.application_date]>>
    /\ serr' = <<>>
    /\ fetched_records' = <<>>
    /\ UNCHANGED <<fieldVars, verifyVars, now, pollVars, fillVars, applyVars,
                   parseVars, jsonVars, chunkVars, key_file, managers,
                   profile_file, loaded_data>>

\* manager.update_application_status(job_url, new_status, application_date)
UpdateStatus ==
    /\ ManagerReady
    /\ \E job_url \in JobUrls, new_status \in NewStatuses,
          application_date \in {None} \cup Datetimes :
          LET outcome == update_first_record(RecordsOf(records_file), job_url,
                                             new_status, application_date)
          IN /\ storage_calls' = <<[op |-> "update_application_status",
                                    job_url |-> job_url,
                                    new_status |-> new_status,
                                    application_date |-> application_date]>>
             /\ IF records_file = <<>>
                THEN /\ serr' = <<"Failed to update application status: ",
                                  "No application records found">>
                     /\ UNCHANGED records_file
                ELSE IF ~outcome.updated
                THEN /\ serr' = <<"Failed to update application status: ",
                                  "Application record not found">>
                     /\ UNCHANGED records_file
                ELSE /\ serr' = <<>>
                     /\ records_file' = <<outcome.records>>
    /\ fetched_records' = <<>>
    /\ UNCHANGED <<fieldVars, verifyVars, now, pollVars, fillVars, applyVars,
                   parseVars, jsonVars, chunkVars, key_file, managers,
                   profile_file, loaded_data>>

\* manager.get_application_records()
GetRecords ==
    /\ ManagerReady
    /\ storage_calls' = <<[op |-> "get_application_records", job_url |-> None,
                           new_status |-> None, application_date |-> None]>>
    /\ LET data == RecordsOf(records_file)
       IN IF \A k \in 1..Len(data) : IsValidRecord(data[k])
          THEN /\ fetched_records' =
                     <<[k \in 1..Len(data) |-> ApplicationRecord(data[k])]>>
               /\ serr' = <<>>
          ELSE /\ fetched_records' = <<>>
               /\ serr' = <<"Failed to retrieve application records: ",
                            "Invalid status. Must be one of: ">>
    /\ UNCHANGED <<fieldVars, verifyVars, now, pollVars, fillVars, applyVars,
                   parseVars, jsonVars, chunkVars, key_file, managers,
                   profile_file, loaded_data, records_file>>

-----------------------------------------------------------------------------
(* Initial states *)

\* PDFParser.__init__, and no text function called
InitParserIdle ==
    /\ text = <<>>
    /\ ppc = "none"
    /\ sections = EmptySections
    /\ hf_service = ShippedService
    /\ basic_info = EmptyBasicInfo
    /\ cleaned = <<>>
    /\ experience_data = <<>>
    /\ parser_profile_data = EmptyProfileData
    /\ perr = <<>>
    /\ parsed_profile = <<>>
    /\ stored_profile = <<>>
    /\ parses = 0

\* no profile is written or read, chunk_text is not called and there is no
\* storage manager
InitStorageIdle ==
    /\ linkedin_profile = <<>>
    /\ profile_json = <<>>
    /\ reloaded_profile = <<>>
    /\ jpc = "none"
    /\ chunk_size = 1
    /\ overlap = 0
    /\ start = 0
    /\ chunks = <<>>
    /\ cpc = "none"
    /\ key_file = <<>>
    /\ managers = <<>>
    /\ profile_file = <<>>
    /\ loaded_data = <<>>
    /\ records_file = <<>>
    /\ fetched_records = <<>>
    /\ serr = <<>>
    /\ storage_calls = <<>>

\* nothing has run yet
InitIdle ==
    /\ filled_fields = <<>>
    /\ page = EmptyMap
    /\ pageWrites = <<>>
    /\ verification_start = <<>>
    /\ now = 0
    /\ confidence_threshold \in Thresholds
    /\ confidence_threshold_met = FALSE
    /\ approved = FALSE
    /\ modifications = EmptyMap
    /\ hm_modifications = EmptyMap
    /\ hm_index = 0
    /\ result = <<>>
    /\ verr = <<>>
    /\ inputs = <<>>
    /\ rounds = <<>>
    /\ presented = <<>>
    /\ pollOutcome = "none"
    /\ pollElapsed = <<>>
    /\ fidx = 0
    /\ mapLog = <<>>
    /\ classifyLog = <<>>
    /\ ferr = <<>>
    /\ submitLog = <<>>
    /\ aerr = <<>>

\* a caller of verify_form_data: a page, any list of fields
InitVerify ==
    /\ InitParserIdle
    /\ InitStorageIdle
    /\ fields \in SeqsUpTo(VerifyFields, MaxFields)
    /\ filled_fields = Refs(Len(fields))
    /\ page = EmptyMap
    /\ pageWrites = <<>>
    /\ vpc = "idle"
    /\ verification_start = <<>>
    /\ now = 0
    /\ confidence_threshold \in Thresholds
    /\ confidence_threshold_met = FALSE
    /\ approved = FALSE
    /\ modifications = EmptyMap
    /\ hm_modifications = EmptyMap
    /\ hm_index = 0
    /\ result = <<>>
    /\ verr = <<>>
    /\ inputs = <<>>
    /\ rounds = <<>>
    /\ presented = <<>>
    /\ pollOutcome = "none"
    /\ pollElapsed = <<>>
    /\ fpc = "none"
    /\ fidx = 0
    /\ pageOpen = TRUE
    /\ resume_path = "none"
    /\ profile_data = <<>>
    /\ mapLog = <<>>
    /\ classifyLog = <<>>
    /\ ferr = <<>>
    /\ apc = "none"
    /\ profileStored = FALSE
    /\ LinkedInProfileBound = FALSE
    /\ submitLog = <<>>
    /\ aerr = <<>>

NextVerify ==
    \/ VerifyStart
    \/ ChooseApprove
    \/ ChooseModify
    \/ ChooseCancel
    \/ ChooseInvalid
    \/ ModifyField
    \/ InputFails

SpecVerify == InitVerify /\ [][NextVerify]_vars

\* the same session with the clock running and a caller polling for the timeout
InitTimeout ==
    /\ InitVerify
    /\ fields \in SeqsUpTo(TimedFields, MaxFields)

NextTimeout ==
    \/ VerifyStart
    \/ ChooseApprove
    \/ ChooseModify
    \/ ChooseCancel
    \/ ChooseInvalid
    \/ ModifyField
    \/ InputFails
    \/ Tick
    \/ handle_verification_timeout

SpecTimeout == InitTimeout /\ [][NextTimeout]_vars

\* a caller of fill_form: any list of detected fields, with or without a
\* browser page, a resume, an initialized profile
InitFill ==
    /\ InitIdle
    /\ InitParserIdle
    /\ InitStorageIdle
    /\ fields \in SeqsUpTo(DetectedFields, MaxFields)
    /\ vpc = "none"
    /\ fpc = "called"
    /\ pageOpen \in BOOLEAN
    /\ resume_path \in ResumePaths
    /\ profile_data \in Profiles
    /\ apc = "none"
    /\ profileStored = FALSE
    /\ LinkedInProfileBound = FALSE

NextFill ==
    \/ FillStart
    \/ FillSkipFile
    \/ FillUploadFile
    \/ FillMapField

SpecFill == InitFill /\ [][NextFill]_vars

\* the apply command.  app/main.py uses the name LinkedInProfile (line 99) and
\* imports it nowhere, so the lookup succeeds only in a process that has bound
\* the name in app.main; both kinds of process are initial states.
InitApply ==
    /\ InitIdle
    /\ InitParserIdle
    /\ InitStorageIdle
    /\ fields = <<>>
    /\ vpc = "none"
    /\ fpc = "none"
    /\ pageOpen = FALSE
    /\ resume_path \in ResumePaths
    /\ profile_data = <<>>
    /\ apc = "load"
    /\ profileStored \in BOOLEAN
    /\ LinkedInProfileBound \in BOOLEAN

NextApply ==
    \/ ApplyLoadProfile
    \/ ApplyNavigate
    \/ ApplyDetect
    \/ FillStart
    \/ FillSkipFile
    \/ FillUploadFile
    \/ FillMapField
    \/ ApplyAfterFill
    \/ VerifyStart
    \/ ChooseApprove
    \/ ChooseModify
    \/ ChooseCancel
    \/ ChooseInvalid
    \/ ModifyField
    \/ InputFails
    \/ ApplyAfterVerify
    \/ ApplySubmit

SpecApply == InitApply /\ [][NextApply]_vars

\* no form, no browser, no session: only the parser is used
InitFormIdle ==
    /\ InitIdle
    /\ fields = <<>>
    /\ vpc = "none"
    /\ fpc = "none"
    /\ pageOpen = FALSE
    /\ resume_path = "none"
    /\ profile_data = <<>>
    /\ apc = "none"
    /\ profileStored = FALSE
    /\ LinkedInProfileBound = FALSE

\* a caller of segment_sections: any text of up to MaxLines lines
InitSegment ==
    /\ InitFormIdle
    /\ InitStorageIdle
    /\ text \in SeqsUpTo(SegmentLines, MaxLines)
    /\ ppc = "segment"
    /\ sections = EmptySections
    /\ hf_service = ShippedService
    /\ basic_info = EmptyBasicInfo
    /\ cleaned = <<>>
    /\ experience_data = <<>>
    /\ parser_profile_data = EmptyProfileData
    /\ perr = <<>>
    /\ parsed_profile = <<>>
    /\ stored_profile = <<>>
    /\ parses = 0

NextSegment == Segment

\* a caller of parse_experience_section: a section of up to MaxParts pieces
InitExperience ==
    /\ InitFormIdle
    /\ InitStorageIdle
    /\ text \in { Concat(parts) : parts \in SeqsUpTo(ExperienceParts, MaxParts) }
    /\ ppc = "experience"
    /\ sections = EmptySections
    /\ hf_service = ShippedService
    /\ basic_info = EmptyBasicInfo
    /\ cleaned = <<>>
    /\ experience_data = <<>>
    /\ parser_profile_data = EmptyProfileData
    /\ perr = <<>>
    /\ parsed_profile = <<>>
    /\ stored_profile = <<>>
    /\ parses = 0

NextExperience == ParseExperience

\* a caller of _extract_basic_info: any text of up to MaxInfoLines lines and
\* any service
InitBasicInfo ==
    /\ InitFormIdle
    /\ InitStorageIdle
    /\ text \in SeqsUpTo(InfoLines, MaxInfoLines)
    /\ ppc = "basic_info"
    /\ sections = EmptySections
    /\ hf_service \in Services
    /\ basic_info = EmptyBasicInfo
    /\ cleaned = <<>>
    /\ experience_data = <<>>
    /\ parser_profile_data = EmptyProfileData
    /\ perr = <<>>
    /\ parsed_profile = <<>>
    /\ stored_profile = <<>>
    /\ parses = 0

NextBasicInfo == ExtractBasicInfo

\* a new PDFParser and a document; the classifier is the module's
\* huggingface_service
InitProfile ==
    /\ InitFormIdle
    /\ InitStorageIdle
    /\ text \in ProfileTexts
    /\ ppc = "profile"
    /\ sections = EmptySections
    /\ hf_service = ShippedService
    /\ basic_info = EmptyBasicInfo
    /\ cleaned = <<>>
    /\ experience_data = <<>>
    /\ parser_profile_data = EmptyProfileData
    /\ perr = <<>>
    /\ parsed_profile = <<>>
    /\ stored_profile = <<>>
    /\ parses = 0

NextProfile ==
    \/ parse_profile
    \/ ParseAgain

SpecProfile == InitProfile /\ [][NextProfile]_vars

\* a text about to be handed to clean_text
InitCleanText ==
    /\ InitFormIdle
    /\ InitStorageIdle
    /\ text \in SeqsUpTo(TextChars, MaxChars)
    /\ ppc = "clean"
    /\ sections = EmptySections
    /\ hf_service = ShippedService
    /\ basic_info = EmptyBasicInfo
    /\ cleaned = <<>>
    /\ experience_data = <<>>
    /\ parser_profile_data = EmptyProfileData
    /\ perr = <<>>
    /\ parsed_profile = <<>>
    /\ stored_profile = <<>>
    /\ parses = 0

NextCleanText ==
    \/ Clean
    \/ CleanAgain

SpecCleanText == InitCleanText /\ [][NextCleanText]_vars

\* a valid LinkedInProfile, built from data with up to MaxEntries entries of
\* each kind
InitJson ==
    /\ InitIdle
    /\ fields = <<>>
    /\ vpc = "none"
    /\ fpc = "none"
    /\ pageOpen = FALSE
    /\ resume_path = "none"
    /\ profile_data = <<>>
    /\ apc = "none"
    /\ profileStored = FALSE
    /\ LinkedInProfileBound = FALSE
    /\ InitParserIdle
    /\ linkedin_profile \in
          { <<LinkedInProfile([full_name |-> "John Doe", experiences |-> x,
                               education |-> e])>> :
              x \in SeqsUpTo(ExperienceInputs, MaxEntries),
              e \in SeqsUpTo(EducationInputs, MaxEntries) }
    /\ profile_json = <<>>
    /\ reloaded_profile = <<>>
    /\ jpc = "built"
    /\ chunk_size = 1
    /\ overlap = 0
    /\ start = 0
    /\ chunks = <<>>
    /\ cpc = "none"
    /\ key_file = <<>>
    /\ managers = <<>>
    /\ profile_file = <<>>
    /\ loaded_data = <<>>
    /\ records_file = <<>>
    /\ fetched_records = <<>>
    /\ serr = <<>>
    /\ storage_calls = <<>>

NextJson ==
    \/ ToJson
    \/ FromJson

SpecJson == InitJson /\ [][NextJson]_vars

\* a call of chunk_text with 0 <= overlap < chunk_size
InitChunk ==
    /\ InitIdle
    /\ fields = <<>>
    /\ vpc = "none"
    /\ fpc = "none"
    /\ pageOpen = FALSE
    /\ resume_path = "none"
    /\ profile_data = <<>>
    /\ apc = "none"
    /\ profileStored = FALSE
    /\ LinkedInProfileBound = FALSE
    /\ text \in SeqsUpTo(ChunkChars, MaxChunkText)
    /\ ppc = "none"
    /\ sections = EmptySections
    /\ hf_service = ShippedService
    /\ basic_info = EmptyBasicInfo
    /\ cleaned = <<>>
    /\ experience_data = <<>>
    /\ parser_profile_data = EmptyProfileData
    /\ perr = <<>>
    /\ parsed_profile = <<>>
    /\ stored_profile = <<>>
    /\ parses = 0
    /\ linkedin_profile = <<>>
    /\ profile_json = <<>>
    /\ reloaded_profile = <<>>
    /\ jpc = "none"
    /\ chunk_size \in 1..MaxChunkSize
    /\ overlap \in 0..(chunk_size - 1)
    /\ start = 0
    /\ chunks = <<>>
    /\ cpc = "loop"
    /\ key_file = <<>>
    /\ managers = <<>>
    /\ profile_file = <<>>
    /\ loaded_data = <<>>
    /\ records_file = <<>>
    /\ fetched_records = <<>>
    /\ serr = <<>>
    /\ storage_calls = <<>>

NextChunk ==
    \/ ChunkStep
    \/ ChunkReturn

\* a data directory, with or without a key file of an earlier run, and the
\* processes about to make their storage manager
InitKeys ==
    /\ InitIdle
    /\ fields = <<>>
    /\ vpc = "none"
    /\ fpc = "none"
    /\ pageOpen = FALSE
    /\ resume_path = "none"
    /\ profile_data = <<>>
    /\ apc = "none"
    /\ profileStored = FALSE
    /\ LinkedInProfileBound = FALSE
    /\ InitParserIdle
    /\ linkedin_profile = <<>>
    /\ profile_json = <<>>
    /\ reloaded_profile = <<>>
    /\ jpc = "none"
    /\ chunk_size = 1
    /\ overlap = 0
    /\ start = 0
    /\ chunks = <<>>
    /\ cpc = "none"
    /\ key_file \in { <<>>, <<"key0">> }
    /\ managers = [m \in Managers |-> NoManager]
    /\ profile_file = <<>>
    /\ loaded_data = <<>>
    /\ records_file = <<>>
    /\ fetched_records = <<>>
    /\ serr = <<>>
    /\ storage_calls = <<>>

NextKeys ==
    \/ \E m \in Managers : CheckKeyFile(m)
    \/ \E m \in Managers : OpenKeyFile(m)
    \/ \E m \in Managers : WriteKeyFile(m)
    \/ \E m \in Managers : ReadKeyFile(m)
    \/ \E m \in Managers : StoreProfile(m)
    \/ \E m \in Managers : LoadProfile(m)

SpecKeys == InitKeys /\ [][NextKeys]_vars

\* a storage manager over a data directory without application records
InitRecords ==
    /\ InitIdle
    /\ fields = <<>>
    /\ vpc = "none"
    /\ fpc = "none"
    /\ pageOpen = FALSE
    /\ resume_path = "none"
    /\ profile_data = <<>>
    /\ apc = "none"
    /\ profileStored = FALSE
    /\ LinkedInProfileBound = FALSE
    /\ InitParserIdle
    /\ linkedin_profile = <<>>
    /\ profile_json = <<>>
    /\ reloaded_profile = <<>>
    /\ jpc = "none"
    /\ chunk_size = 1
    /\ overlap = 0
    /\ start = 0
    /\ chunks = <<>>
    /\ cpc = "none"
    /\ key_file = <<"key0">>
    /\ managers = [m \in Managers |->
                      IF m = 1 THEN [pc |-> "ready", encryption_key |-> "key0"]
                      ELSE NoManager]
    /\ profile_file = <<>>
    /\ loaded_data = <<>>
    /\ records_file = <<>>
    /\ fetched_records = <<>>
    /\ serr = <<>>
    /\ storage_calls = <<>>

NextRecords ==
    \/ StoreRecord
    \/ UpdateStatus
    \/ GetRecords

SpecRecords == InitRecords /\ [][NextRecords]_vars

\* the call runs on: an iteration that can be made is made
SpecChunk == InitChunk /\ [][NextChunk]_vars /\ WF_vars(NextChunk)

SpecBasicInfo == InitBasicInfo /\ [][NextBasicInfo]_vars

SpecExperience == InitExperience /\ [][NextExperience]_vars

SpecSegment == InitSegment /\ [][NextSegment]_vars

-----------------------------------------------------------------------------
(* Properties of the verification session *)

Last(q) == q[Len(q)]

ResultOf == result[1]

\* the operator typed only unrecognized choices and then "1"
OnlyInvalidThenApprove ==
    /\ inputs # <<>>
    /\ Last(inputs) = "1"
    /\ \A i \in 1..(Len(inputs) - 1) : inputs[i] \in UnrecognizedChoices

\* a step in which the choice prompt read an unrecognized line
InvalidChoiceStep ==
    /\ vpc = "choice"
    /\ Len(inputs') = Len(inputs) + 1
    /\ Last(inputs') \in UnrecognizedChoices

\* C1: unrecognized choices followed by "1" end the session with a result
\* that is approved and has no modifications, and an unrecognized choice only
\* re-prompts: no field value changes, nothing is written to the page, the
\* session stays at the choice prompt.
C1_InvalidThenApprove ==
    /\ [](OnlyInvalidThenApprove =>
            /\ vpc = "returned"
            /\ result # <<>>
            /\ ResultOf.approved
            /\ ResultOf.modifications = EmptyMap)
    /\ [][InvalidChoiceStep =>
            /\ vpc' = "choice"
            /\ UNCHANGED <<fields, page, pageWrites, modifications, result,
                           verr>>]_vars

C1_Witness ==
    /\ OnlyInvalidThenApprove
    /\ Len(inputs) >= 3
    /\ vpc = "returned"
    /\ \E k \in 1..Len(filled_fields) : Field(k).field_type # "file"

\* the prompts of round r that read a non-blank line
NonBlank(r) == { k \in 1..Len(rounds[r]) : rounds[r][k].input # "" }

\* the prompts of round r that read a non-blank line other than the value shown
Differing(r) ==
    { k \in 1..Len(rounds[r]) :
        rounds[r][k].input # "" /\ rounds[r][k].input # rounds[r][k].current }

\* the result has exactly one modification, that of prompt k of round 1
OneModification(k) ==
    LET p == rounds[1][k]
        sel == fields[p.ref].selector
    IN /\ DOMAIN ResultOf.modifications = {sel}
       /\ ResultOf.modifications[sel] = p.input
       /\ fields[p.ref].value = p.input

\* C2 as stated: one modify round with a non-blank line at exactly one prompt,
\* then approval, gives exactly one modification, keyed by that field's
\* selector, and the field holds the override.
C2_Original ==
    (vpc = "returned" /\ Len(rounds) = 1 /\ Cardinality(NonBlank(1)) = 1)
        => \A k \in NonBlank(1) : OneModification(k)

\* C2: one modify round in which exactly one prompt read a non-blank line
\* that differs from the value shown, every other prompt a blank line, then
\* approval, gives exactly one modification, keyed by that field's selector
\* with the override as value, and the field holds the override.
C2_OneOverride ==
    (/\ vpc = "returned"
     /\ Len(rounds) = 1
     /\ Cardinality(NonBlank(1)) = 1
     /\ Differing(1) = NonBlank(1))
        => \A k \in NonBlank(1) : OneModification(k)

C2_Witness ==
    /\ vpc = "returned"
    /\ Len(rounds) = 1
    /\ Len(rounds[1]) = 2
    /\ Cardinality(NonBlank(1)) = 1
    /\ Differing(1) = NonBlank(1)

\* a step in which the choice prompt read "3"
CancelStep ==
    /\ vpc = "choice"
    /\ Len(inputs') = Len(inputs) + 1
    /\ Last(inputs') = "3"

\* C3: "3" at a choice prompt, whatever came before, raises VerificationError
\* with a message that names the cancellation, and the session returns no
\* result.
C3_CancelRaises ==
    /\ [][CancelStep =>
            /\ vpc' = "raised"
            /\ verr' = <<"Verification failed: ", "Submission cancelled by user">>
            /\ result' = <<>>]_vars
    /\ [](vpc = "raised" => result = <<>>)

C3_Witness ==
    /\ vpc = "raised"
    /\ verr = <<"Verification failed: ", "Submission cancelled by user">>
    /\ Len(rounds) >= 1
    /\ \E i \in 1..Len(inputs) : inputs[i] = "x"

\* every non-file field shown at the start of the session is at or above the
\* threshold
PresentedMeetThreshold ==
    \A k \in 1..Len(presented) :
        presented[k].field_type # "file"
            => presented[k].confidence >= confidence_threshold

\* C4: confidence_threshold_met is "every non-file field presented has
\* confidence >= threshold", fixed before the first prompt; invalid inputs,
\* modify rounds and overrides do not change it and file fields do not count.
C4_ThresholdMetOnce ==
    /\ vpc # "idle" => (confidence_threshold_met <=> PresentedMeetThreshold)
    /\ result # <<>> =>
         (ResultOf.confidence_threshold_met <=> PresentedMeetThreshold)

C4_Witness ==
    /\ result # <<>>
    /\ ResultOf.confidence_threshold_met
    /\ ResultOf.modifications # EmptyMap
    /\ \E k \in 1..Len(presented) :
         /\ presented[k].field_type = "file"
         /\ presented[k].confidence < confidence_threshold
    /\ \E k \in 1..Len(presented) :
         /\ presented[k].field_type # "file"
         /\ presented[k].confidence = confidence_threshold

\* the maps of modifications a session holds
ModificationMaps ==
    {modifications, hm_modifications}
        \cup (IF result # <<>> THEN {ResultOf.modifications} ELSE {})

\* the references of the fields that were offered an override prompt
Prompted ==
    UNION { { rounds[r][k].ref : k \in 1..Len(rounds[r]) } : r \in 1..Len(rounds) }

SessionFailures ==
    { <<"Verification failed: ", "Submission cancelled by user">>,
      <<"Verification failed: ", "page.fill failed">>,
      <<"Verification failed: ", "EOF when reading a line">> }

\* a poll: handle_verification_timeout ran
PollStep == pollOutcome' # pollOutcome \/ pollElapsed' # pollElapsed

\* C6: the timeout is advisory.  The passing of time changes nothing in a
\* session, a session fails only for the operator's cancel, a failed read or
\* a failed page write, and a poll raises exactly when a session was started
\* and at least verification_timeout seconds have passed since.
C6_TimeoutAdvisory ==
    /\ [][now' # now => UNCHANGED <<vpc, result, verr, fields, modifications>>]_vars
    /\ [](verr # <<>> => verr \in SessionFailures)
    /\ [][PollStep =>
            /\ pollOutcome' = "raised" <=>
                 /\ verification_start # <<>>
                 /\ now - verification_start[1] >= verification_timeout
            /\ pollOutcome' \in {"raised", "nothing"}
            /\ UNCHANGED <<vpc, result, verr, fields, modifications>>]_vars
    /\ [](pollOutcome = "raised" <=>
            (pollElapsed # <<>> /\ pollElapsed[1] >= verification_timeout))

C6_Witness ==
    /\ result # <<>>
    /\ ResultOf.approved
    /\ ResultOf.verification_duration >= verification_timeout
    /\ pollOutcome = "raised"
    /\ pollElapsed # <<>>
    /\ pollElapsed[1] >= verification_timeout
    /\ inputs # <<>>

-----------------------------------------------------------------------------
(* Properties of the apply-to-job flow *)

-----------------------------------------------------------------------------
(* Properties of fill_form and the field mapper *)

\* the references fill_form has appended to filled_fields
Filled == { filled_fields[k] : k \in 1..Len(filled_fields) }

\* C8: no file field reaches the mapper: neither _map_field_value nor the
\* classifier is ever invoked for a field of type file, with or without a
\* resume path.
C8_FileNeverMapped ==
    /\ \A k \in 1..Len(mapLog) : fields[mapLog[k].ref].field_type # "file"
    /\ \A k \in 1..Len(classifyLog) :
          fields[classifyLog[k].ref].field_type # "file"

C8_Witness ==
    /\ fpc = "returned"
    /\ resume_path = "exists"
    /\ Len(fields) = 2
    /\ fields[1].field_type = "file"
    /\ 1 \in Filled
    /\ Len(mapLog) = 1
    /\ Len(classifyLog) = 1

\* the reasons fill_form raises
FillFailures ==
    { FillFailed("Browser not initialized"),
      FillFailed("Failed to upload file: Resume file not found"),
      FillFailed("Failed to upload file: set_input_files failed"),
      FillFailed("Failed to fill field #a"),
      FillFailed("Failed to fill field #b") }

\* a step in which _map_field_value met a failure of the mapper
MapFailureStep ==
    /\ Len(mapLog') = Len(mapLog) + 1
    /\ Last(mapLog').failed

\* C9: a classifier failure while mapping a field gives ("", 0.0) for that
\* field only: the field is not filled, fill_form does not raise because of
\* it and goes on with the next field, and when fill_form returns every
\* non-file field was mapped and, when a value was found, filled.
C9_MappingFailureIsLocal ==
    /\ [](\A k \in 1..Len(mapLog) :
            mapLog[k].failed =>
               /\ mapLog[k].value = ""
               /\ mapLog[k].confidence = 0
               /\ mapLog[k].ref \notin Filled)
    /\ [](fpc = "raised" => ferr \in FillFailures)
    /\ [][MapFailureStep =>
            /\ fpc' \in {"loop", "returned"}
            /\ fidx' = fidx + 1
            /\ UNCHANGED <<fields, filled_fields, page, pageWrites, ferr>>]_vars
    /\ [](fpc = "returned" =>
            \A i \in 1..Len(fields) :
               fields[i].field_type # "file" =>
                  \E k \in 1..Len(mapLog) :
                     /\ mapLog[k].ref = i
                     /\ mapLog[k].value # "" =>
                          /\ i \in Filled
                          /\ fields[i].value = mapLog[k].value
                          /\ fields[i].confidence = mapLog[k].confidence)

C9_Witness ==
    /\ fpc = "returned"
    /\ Len(mapLog) = 2
    /\ mapLog[1].failed
    /\ classifyLog # <<>>
    /\ classifyLog[1].ref = 1
    /\ mapLog[2].value # ""
    /\ filled_fields = <<2>>
    /\ pageWrites # <<>>

\* the members of a list
Members(l) == { l[i] : i \in 1..Len(l) }

\* C10 as stated: for a select or radio field with a non-empty option list,
\* the value map_field returns is one of the field's options.
C10_SelectionReturnsOption ==
    \A k \in 1..Len(mapLog) :
        (mapLog[k].options # <<>> /\ ~mapLog[k].failed)
            => mapLog[k].value \in Members(mapLog[k].options)

\* a confidence between 0.0 and 1.0, in hundredths
InUnitInterval(c) == c >= 0 /\ c <= 100

\* C11: every confidence the field mapper produces, and the confidence of
\* every field of the list fill_form builds, lies in [0,1]; a classifier
\* failure gives 0.0.
C11_ConfidenceInRange ==
    /\ \A k \in 1..Len(mapLog) :
          /\ InUnitInterval(mapLog[k].confidence)
          /\ mapLog[k].failed => mapLog[k].confidence = 0
    /\ \A k \in 1..Len(filled_fields) : InUnitInterval(Field(k).confidence)

C11_Witness ==
    /\ fpc = "returned"
    /\ Len(mapLog) = 2
    /\ mapLog[1].confidence = 90
    /\ mapLog[2].failed
    /\ Len(filled_fields) = 1
    /\ Field(1).confidence = 90

\* no entry of the profile gives a candidate for a field of this type
NoCandidates(field_type, profile) ==
    CASE field_type = "email" ->
            ~ \E i \in 1..Len(profile) :
                 /\ profile[i].key = "email"
                 /\ profile[i].kind = "str"
                 /\ profile[i].str # ""
      [] field_type = "tel" ->
            ~ \E i \in 1..Len(profile) :
                 /\ profile[i].key = "phone"
                 /\ profile[i].kind = "str"
                 /\ profile[i].str # ""
      [] OTHER ->
            \A i \in 1..Len(profile) :
                 /\ profile[i].kind # "str"
                 /\ profile[i].kind = "list" =>
                       \A j \in 1..Len(profile[i].list) : profile[i].list[j] = ""

\* call k of the mapper was for a field without options and without candidates
EmptyPoolCall(k) ==
    /\ mapLog[k].options = <<>>
    /\ NoCandidates(fields[mapLog[k].ref].field_type, profile_data)

\* C12: when the profile gives no candidate for a field (an email field and a
\* profile without email), map_field returns exactly ("", 0.0), does not
\* raise, and sends no classification request.
C12_EmptyPoolNoRequest ==
    \A k \in 1..Len(mapLog) :
        EmptyPoolCall(k) =>
            /\ mapLog[k].value = ""
            /\ mapLog[k].confidence = 0
            /\ ~mapLog[k].failed
            /\ \A j \in 1..Len(classifyLog) : classifyLog[j].ref # mapLog[k].ref

C12_Witness ==
    /\ fpc = "returned"
    /\ profile_data # <<>>
    /\ Len(mapLog) = 2
    /\ EmptyPoolCall(1)
    /\ fields[1].field_type = "email"
    /\ ~EmptyPoolCall(2)
    /\ Len(classifyLog) = 1

\* a list of references in the order of the fields they denote
Ascending(refs) ==
    \A j \in 1..Len(refs) : \A k \in (j + 1)..Len(refs) : refs[j] < refs[k]

IsNotFile(ref) == fields[ref].field_type # "file"

\* the fields of filled_fields that get an override prompt, in list order
NonFileRefs == SelectSeq(filled_fields, IsNotFile)

\* C13: the list fill_form builds keeps the order of the detected fields (it
\* is a subsequence of them), the verification table shows the fields of that
\* list in its order, and every modify round asks for overrides in that order.
C13_OrderKept ==
    /\ Ascending(filled_fields)
    /\ \A k \in 1..Len(filled_fields) : filled_fields[k] \in 1..Len(fields)
    /\ vpc \notin {"none", "idle"} =>
          /\ Len(presented) = Len(filled_fields)
          /\ \A k \in 1..Len(presented) :
                /\ presented[k].selector = Field(k).selector
                /\ presented[k].field_type = Field(k).field_type
                /\ presented[k].label = Field(k).label
    /\ \A r \in 1..Len(rounds) :
          /\ Len(rounds[r]) <= Len(NonFileRefs)
          /\ \A k \in 1..Len(rounds[r]) : rounds[r][k].ref = NonFileRefs[k]

C13_Witness ==
    /\ apc = "verify"
    /\ filled_fields = <<1, 2>>
    /\ fields[1].selector # fields[2].selector
    /\ Len(rounds) = 1
    /\ Len(rounds[1]) = 2

\* the classification requests sent while handling field ref
RequestsFor(ref) == { k \in 1..Len(classifyLog) : classifyLog[k].ref = ref }

\* the calls of the mapper for field ref
CallsFor(ref) == { k \in 1..Len(mapLog) : mapLog[k].ref = ref }

\* C14: handling one field sends at most one classification request and
\* calls the mapper at most once; a failed request is reported for its field
\* and not sent again, the loop moves to the next field, and no field is
\* written to the page more than once.
C14_NoRetry ==
    /\ [](\A ref \in 1..Len(fields) :
            /\ Cardinality(RequestsFor(ref)) <= 1
            /\ Cardinality(CallsFor(ref)) <= 1)
    /\ [](Len(pageWrites) <= Len(filled_fields))
    /\ [][MapFailureStep =>
            /\ Len(classifyLog') <= Len(classifyLog) + 1
            /\ Last(mapLog').ref = fidx
            /\ fidx' = fidx + 1
            /\ pageWrites' = pageWrites]_vars

C14_Witness ==
    /\ fpc = "returned"
    /\ Len(mapLog) = 2
    /\ mapLog[1].value # ""
    /\ mapLog[2].failed
    /\ Cardinality(RequestsFor(1)) = 1
    /\ Cardinality(RequestsFor(2)) = 1
    /\ Len(pageWrites) = 1

-----------------------------------------------------------------------------
(* Properties of the parser *)

\* the lines of the text, stripped, without the empty ones
ContentLines == SelectSeq([k \in 1..Len(text) |-> Strip(text[k])],
                          LAMBDA l : l # "")

\* the positions of ContentLines that hold a header
HeaderAt == { k \in 1..Len(ContentLines) : AnyMarkerIn(ContentLines[k]) }

\* the section a header line names
SectionOf(line) ==
    LET m == CHOOSE m \in 1..Len(section_markers) :
                 /\ Contains(section_markers[m].marker, line)
                 /\ \A n \in 1..(m - 1) : ~Contains(section_markers[n].marker, line)
    IN section_markers[m].section_name

\* the headers name different sections, the first line is a header and every
\* header is followed by a line of content
WellSeparated ==
    /\ HeaderAt # {}
    /\ 1 \in HeaderAt
    /\ \A j, k \in HeaderAt :
          j # k => SectionOf(ContentLines[j]) # SectionOf(ContentLines[k])
    /\ \A k \in HeaderAt : k + 1 \in (1..Len(ContentLines)) \ HeaderAt

\* C15 as stated: a text with N header lines naming different sections, each
\* followed by content, and nothing before the first header, gives exactly N
\* sections, the ones the headers name, each with a text that is not empty.
C15_SectionPerHeader ==
    (ppc = "returned" /\ WellSeparated) =>
        /\ Cardinality(DOMAIN sections) = Cardinality(HeaderAt)
        /\ DOMAIN sections = { SectionOf(ContentLines[k]) : k \in HeaderAt }
        /\ \A s \in DOMAIN sections : sections[s] # <<>>

\* the experience blocks of the claim: a title line, a company line and a
\* date line, then any lines of description
ExperienceBlocks ==
    { <<TitleLine, CompanyLine, DateLine>> \o d :
        d \in {<<>>, <<BulletLine>>, <<LongLine>>, <<BulletLine, LongLine>>} }

\* the text is two experience blocks with one duration line between them
TwoBlocks ==
    \E b1, b2 \in ExperienceBlocks : text = b1 \o <<DurationLine>> \o b2

\* C16 as stated: two experience blocks separated by one duration line give
\* exactly two experience records, with or without description lines.
C16_TwoBlocksTwoRecords ==
    (ppc = "returned" /\ TwoBlocks) =>
        Len(parser_profile_data.experiences) = 2

\* the text has lines and none of them is a contact line: the name is asked
\* of the classifier
FallbackUsed ==
    /\ StrippedLines(text) # <<>>
    /\ ContactAt(StrippedLines(text), 1) = 0

\* the classifier ranked full_name first for the first line, above 0.8
TopLabelIsFullName ==
    /\ hf_service.classification # <<>>
    /\ hf_service.classification[1].labels # <<>>
    /\ hf_service.classification[1].labels[1] = "full_name"
    /\ hf_service.classification[1].scores[1] > 80

\* C19 as stated: in the fallback the first line is taken as full_name only
\* when the classifier's top label for it is full_name with a score above
\* 0.8; with another top label, or a score of 0.8 or less, full_name stays
\* unset.
C19_NameNeedsFullNameLabel ==
    (ppc = "returned" /\ FallbackUsed) =>
        /\ basic_info.full_name # None <=> TopLabelIsFullName
        /\ basic_info.full_name # None =>
              basic_info.full_name = StrippedLines(text)[1]

\* parse_profile has ended
ParseEnded == ppc \in {"returned", "raised"} /\ parses > 0

\* C17 as stated: with the full name found, experience entries that fail
\* validation are dropped and parse_profile does not fail: it returns a
\* profile whose experience entries all validate.
C17_InvalidExperienceNotFatal ==
    (/\ ParseEnded
     /\ Truthy(basic_info.full_name)
     /\ "experience" \in DOMAIN sections) =>
        /\ ppc = "returned"
        /\ parsed_profile # <<>>
        /\ IsValidProfile(parsed_profile[1])

\* the text was read and no full name was extracted from it
NameNotExtracted ==
    /\ ParseEnded
    /\ perr # ParseFailed("Failed to extract text from PDF")
    /\ ~basic_info.raised
    /\ ~Truthy(basic_info.full_name)

\* C18 as stated: parse_profile returns no profile without a full name; when
\* no full name was extracted it raises an error whose message says that the
\* full name is missing, and no profile is returned or stored.
C18_MissingNameReported ==
    /\ parsed_profile # <<>> => Truthy(parsed_profile[1].full_name)
    /\ NameNotExtracted =>
          /\ ppc = "raised"
          /\ perr = ParseFailed("Full name is missing from the profile data")
          /\ parsed_profile = <<>>
          /\ stored_profile = <<>>

\* C20 as stated: clean_text is idempotent, clean_text(clean_text(t)) =
\* clean_text(t) for every text t, control characters between spaces and
\* punctuation included.
C20_CleanTextIdempotent ==
    ppc = "recleaned" => cleaned[2] = cleaned[1]

-----------------------------------------------------------------------------
(* Properties of a verification session, continued *)

\* the field is the only one of the list handed in under its selector
UniqueSelector(f) ==
    \A k \in 1..Len(filled_fields) :
        fields[filled_fields[k]].selector = fields[f].selector => filled_fields[k] = f

\* the prompts of the session that overrode the live value of a field
Overrides ==
    { p \in UNION { { rounds[r][k] : k \in 1..Len(rounds[r]) } : r \in 1..Len(rounds) } :
        OverrideApplies(p.input, p.current) }

\* C26 as stated: when a session ends in approval, the modifications of the
\* result hold an entry, with the field's final value, for every field
\* overridden in any modify round of the session; the entries of an earlier
\* round survive a later round.
C26_ModificationsAccumulate ==
    (vpc = "returned" /\ result # <<>>) =>
        \A p \in Overrides :
            UniqueSelector(p.ref) =>
                /\ fields[p.ref].selector \in DOMAIN result[1].modifications
                /\ result[1].modifications[fields[p.ref].selector] = fields[p.ref].value

\* C27: verify_form_data returns a result only with approved = true, after
\* the approve choice; a session ended by cancel, a failing read or a failing
\* page write raises VerificationError and returns no result.
C27_ResultOnlyApproved ==
    /\ result # <<>> =>
          /\ result[1].approved
          /\ approved
          /\ verr = <<>>
          /\ inputs # <<>> /\ "1" \in { inputs[k] : k \in 1..Len(inputs) }
    /\ vpc = "returned" => result # <<>>
    /\ vpc = "raised" =>
          /\ result = <<>>
          /\ verr # <<>> /\ verr[1] = "Verification failed: "

\* a session ended by a failing page write during a modify round
C27_Witness ==
    /\ vpc = "raised"
    /\ verr = Wrapped("page.fill failed")
    /\ result = <<>>
    /\ rounds # <<>>

-----------------------------------------------------------------------------
(* Properties of fill_form, continued *)

\* the calls of _map_field_value made for the field
MappingsOf(f) == { mapLog[i] : i \in { j \in 1..Len(mapLog) : mapLog[j].ref = f } }

\* the writes made to the page so far
WritesMade == { pageWrites[i] : i \in 1..Len(pageWrites) }

\* C28 as stated: every non-file field of the list fill_form returns has a
\* non-empty value that was written to the page and the confidence the mapper
\* returned for it; a field mapped to an empty value is not in the list, and
\* nothing is written to the page for a field that is not in the list.
C28_ReturnedFieldsWereWritten ==
    fpc = "returned" =>
        /\ \A k \in 1..Len(filled_fields) :
              LET f == filled_fields[k]
              IN fields[f].field_type # "file" =>
                    /\ Truthy(fields[f].value)
                    /\ \E m \in MappingsOf(f) :
                          /\ m.value = fields[f].value
                          /\ m.confidence = fields[f].confidence
                    /\ \E w \in WritesMade :
                          <<w>> = FillWrites(fields[f], fields[f].value)
        /\ \A i \in 1..Len(mapLog) :
              mapLog[i].value = "" =>
                 \A k \in 1..Len(filled_fields) : filled_fields[k] # mapLog[i].ref
        /\ Len(pageWrites) <= Len(filled_fields)

-----------------------------------------------------------------------------
(* Properties of segment_sections, continued *)

\* the section named by the nearest header at or before position k of
\* ContentLines, "header" when there is none
RECURSIVE NearestSection(_)
NearestSection(k) ==
    IF k = 0 THEN "header"
    ELSE IF k \in HeaderAt THEN SectionOf(ContentLines[k])
    ELSE NearestSection(k - 1)

\* the lines among the first k of ContentLines that belong to section s
RECURSIVE LinesOf(_, _)
LinesOf(s, k) ==
    IF k = 0 THEN <<>>
    ELSE IF k \notin HeaderAt /\ NearestSection(k) = s
    THEN Append(LinesOf(s, k - 1), ContentLines[k])
    ELSE LinesOf(s, k - 1)

\* the text stored for section s, empty when the section is not stored
SectionText(s) == IF s \in DOMAIN sections THEN sections[s] ELSE <<>>

\* the names a section may be stored under
SectionNames ==
    {"header"} \cup { section_markers[m].section_name : m \in 1..Len(section_markers) }

\* no two header lines of the text name the same section
DistinctHeaders ==
    \A j, k \in HeaderAt :
        j # k => SectionOf(ContentLines[j]) # SectionOf(ContentLines[k])

\* C30 as stated: every non-empty line without a header token is stored in
\* the text of the section named by the nearest preceding header line
\* ("header" when none precedes it), and no header line is stored in the text
\* of any section, the about section and the header after it included.
C30_LinesFiledUnderNearestHeader ==
    (ppc = "returned" /\ DistinctHeaders) =>
        /\ \A s \in SectionNames : SectionText(s) = LinesOf(s, Len(ContentLines))
        /\ \A s \in DOMAIN sections :
              \A k \in 1..Len(sections[s]) : ~AnyMarkerIn(sections[s][k])

-----------------------------------------------------------------------------
(* Properties of the profile file *)

\* C21 as stated: to_json followed by from_json gives back an equal profile,
\* for every valid profile, dates of experience and education entries
\* included.
C21_JsonRoundTrip ==
    jpc = "read" => reloaded_profile = linkedin_profile

-----------------------------------------------------------------------------
(* Properties of chunk_text *)

\* C25 as stated: chunk_text terminates and returns its list for every text
\* and every chunk_size and overlap with 0 <= overlap < chunk_size, a
\* positive overlap and a text shorter than chunk_size included.
C25_ChunkTextTerminates == <>(cpc = "returned")

-----------------------------------------------------------------------------
(* Properties of the storage managers *)

\* the managers whose __init__ has returned
Ready == { m \in Managers : managers[m].pc = "ready" }

\* C24 as stated: any two storage managers over one data directory hold the
\* same key, the key of the key file, whatever the interleaving of their
\* initializations.
C24_OneKey ==
    \A m \in Ready :
        /\ key_file # <<>> /\ managers[m].encryption_key = key_file[1]
        /\ \A n \in Ready : managers[n].encryption_key = managers[m].encryption_key

\* load_profile_data was called right after store_profile_data, on the same
\* manager
LoadAfterStore ==
    /\ Len(storage_calls) = 2
    /\ storage_calls[1].op = "store_profile_data"
    /\ storage_calls[2].op = "load_profile_data"
    /\ storage_calls[1].manager = storage_calls[2].manager

\* C22 as stated: load_profile_data after store_profile_data(p) returns a
\* dictionary whose email, phone and other fields equal those of p, for every
\* p, one whose email or phone is there with no value included.
C22_LoadReturnsStored ==
    LoadAfterStore =>
        /\ serr = <<>>
        /\ loaded_data # <<>>
        /\ DOMAIN loaded_data[1] = DOMAIN storage_calls[1].data
        /\ \A k \in DOMAIN storage_calls[1].data :
              loaded_data[1][k] = storage_calls[1].data[k]

-----------------------------------------------------------------------------
(* Properties of the application records *)

\* the positions of the records that match the call
MatchingAt(records, call) ==
    { k \in 1..Len(records) :
        Matches(records[k], call.job_url, call.application_date) }

\* the least element of a set of positions that is not empty
Least(S) == CHOOSE k \in S : \A j \in S : k <= j

\* C23: update_application_status changes the status of exactly the first
\* record that matches the job URL (and the date when one is given) and
\* leaves the other records and their number as they are; when no record
\* matches it raises StorageError and the stored records are unchanged.
C23_UpdateFirstMatch ==
    [][ (/\ storage_calls' # <<>>
         /\ storage_calls'[1].op = "update_application_status") =>
        LET call == storage_calls'[1]
            old == RecordsOf(records_file)
            new == RecordsOf(records_file')
            hits == MatchingAt(old, call)
        IN IF hits = {}
           THEN /\ serr' # <<>>
                /\ records_file' = records_file
           ELSE /\ serr' = <<>>
                /\ Len(new) = Len(old)
                /\ new[Least(hits)] = [old[Least(hits)] EXCEPT !.status = call.new_status]
                /\ \A k \in 1..Len(old) : k # Least(hits) => new[k] = old[k]
      ]_vars

\* an update that found two matching records and changed the first only
C23_Witness ==
    /\ storage_calls # <<>>
    /\ storage_calls[1].op = "update_application_status"
    /\ serr = <<>>
    /\ Cardinality(MatchingAt(RecordsOf(records_file), storage_calls[1])) = 2
    /\ RecordsOf(records_file)[1].status = storage_calls[1].new_status
    /\ RecordsOf(records_file)[2].status # storage_calls[1].new_status

\* C29 as stated: after any sequence of store_application_record and
\* update_application_status calls every stored record has a status among
\* submitted, pending, accepted and rejected, and get_application_records
\* returns all stored records instead of failing.
C29_StatusesStayValid ==
    /\ \A k \in 1..Len(RecordsOf(records_file)) :
          RecordsOf(records_file)[k].status \in valid_statuses
    /\ (storage_calls # <<>> /\ storage_calls[1].op = "get_application_records") =>
          /\ serr = <<>>
          /\ fetched_records # <<>>
          /\ Len(fetched_records[1]) = Len(RecordsOf(records_file))

====
